---- MODULE Spec2Model ----
(***************************************************************************)
(* Model of the NLB operator: the reconciler of pkg/controller (Reconcile, *)
(* handleCreateOrUpdate, handleDeletion, handleSecurityGroups,             *)
(* handleListeners, updateCondition) and the provider client of            *)
(* pkg/provider/nlb_client.go, run against one NLB resource object, the    *)
(* API server that stores it and the cloud provider that holds the load    *)
(* balancers and listeners.                                                *)
(*                                                                         *)
(* One reconciliation pass is a sequence of steps; pc is the position of   *)
(* the pass in the code.  Every call the pass makes to the API server or   *)
(* to the provider is one step, so that the user and the provider can act  *)
(* between two calls.                                                      *)
(***************************************************************************)
EXTENDS Integers, Sequences, FiniteSets, TLC

(* ---------------------------------------------------------------------- *)
(* Bounds                                                                  *)
(* ---------------------------------------------------------------------- *)

\* number of load balancers the provider hands out before create calls fail
MaxLb == 2

\* number of listeners the provider hands out before create calls fail
MaxLsn == 2

\* number of times the user edits the listener list of the spec
MaxEdits == 1

\* length of the condition ledger up to which updateCondition is applied
MaxConds == 3

(* ---------------------------------------------------------------------- *)
(* Program constants                                                       *)
(* ---------------------------------------------------------------------- *)

\* the empty string of a provider id (status.loadBalancerId == "")
NoId == 0

\* ctrl.Result{RequeueAfter: 30 * time.Second}
RequeueAfterError == 30

\* ctrl.Result{RequeueAfter: 5 * time.Minute}, in seconds
RequeueAfterSuccess == 300

\* waitJobFinish: wait.PollImmediate(3*time.Second, 3*time.Minute, ...)
JobPollInterval == 3
JobPollTimeout == 180

\* WaitLoadBalancerActive: wait.PollImmediate(10*time.Second, 5*time.Minute, ...)
ActivePollInterval == 10
ActivePollTimeout == 300

ConditionTypeReady == "Ready"
ConditionTypeError == "Error"
ReasonReconcileSuccess == "ReconcileSuccess"
ReasonReconcileError == "ReconcileError"
ReasonDeletionSuccess == "DeletionSuccess"
ReasonDeletionError == "DeletionError"
LoadBalancerStatusActive == "Active"
LoadBalancerStatusProvisioning == "Provisioning"

\* the listener ports a spec may name
Ports == {80, 443}

\* spec.listeners: an ordered list of listener specs with unique ports
ListenerSpecs ==
    {<<>>} \cup {<<p>> : p \in Ports}
           \cup {<<p, q>> : <<p, q>> \in {pq \in Ports \X Ports : pq[1] # pq[2]}}

\* NLBSpec: the fields the reconciler's control flow reads
NLBSpec(ls, sg, dp) ==
    [Listeners |-> ls, SecurityGroupIds |-> sg, DeletionProtection |-> dp]

\* the specs the object is created with: one listener and no security group,
\* or two listeners and a security group; both ask for deletion protection.
\* The user's edits lead from them to every list of ListenerSpecs.
InitialSpecs ==
    {NLBSpec(<<80>>, <<>>, TRUE), NLBSpec(<<80, 443>>, <<"sg-1">>, TRUE)}

VARIABLES
    obj,                \* the NLB resource object as the API server stores it
    nlb,                \* the pass's in-memory copy of the object
    pc,                 \* position of the reconciliation pass
    idx,                \* loop index of the listener loops
    newListenerStatus,  \* handleListeners: the list being rebuilt
    lbId,               \* handleCreateOrUpdate: id returned by the create call
    result,             \* (ctrl.Result, error) the pass returned
    calls,              \* calls the current pass issued, in order
    events,             \* events the current pass recorded, in order
    start,              \* the object as the current pass read it
    prev,               \* what the pass before the current one failed in
    lbs,                \* provider: load balancers, by id
    lsns,               \* provider: listeners, by id
    edits,              \* number of spec edits so far
    poll                \* the poll loop of a wait of the provider client

vars == <<obj, nlb, pc, idx, newListenerStatus, lbId, result, calls,
          events, start, prev, lbs, lsns, edits, poll>>

passVars == <<nlb, pc, idx, newListenerStatus, lbId, result, calls,
              events, start, prev>>

(* ---------------------------------------------------------------------- *)
(* Data                                                                    *)
(* ---------------------------------------------------------------------- *)

\* NLBStatus{}
EmptyStatus ==
    [LoadBalancerId |-> NoId, DNSName |-> NoId, LoadBalancerStatus |-> "",
     Conditions |-> <<>>, ListenerStatus |-> <<>>]

\* ctrl.Result{} with a nil or non-nil error
Result(requeue, after, err) ==
    [Requeue |-> requeue, RequeueAfter |-> after, err |-> err, panic |-> FALSE]

NoResult == Result(FALSE, 0, FALSE)

\* the part of the stored object a client reads
View(o) ==
    [deletionTimestamp |-> o.deletionTimestamp, finalizer |-> o.finalizer,
     spec |-> o.spec, status |-> o.status]

\* nlb := &nlbv1.NLB{}
EmptyNlb ==
    [deletionTimestamp |-> FALSE, finalizer |-> FALSE,
     spec |-> NLBSpec(<<>>, <<>>, FALSE),
     status |-> EmptyStatus]

\* no pass has ended yet, or the last pass did not fail in a call on the
\* load balancer
NoPass == "none"

\* one entry of the call log: the call, the provider id it is about, the
\* listener port it is about, and what it returned
PortCall(op, arg, port, res) == [op |-> op, arg |-> arg, port |-> port, res |-> res]

Call(op, arg, res) == PortCall(op, arg, 0, res)

\* no wait of the provider client is being followed poll by poll
NoPoll ==
    [fn |-> "none", at |-> "none", attempts |-> 0, elapsed |-> 0,
     closing |-> FALSE, last |-> "none", ret |-> "none",
     canceled |-> FALSE, late |-> 0]

\* one recorded event
Event(type, reason, what) == [type |-> type, reason |-> reason, what |-> what]

\* DNS name the provider gives load balancer id
DNSNameOf(id) == id

RECURSIVE FindCondition(_, _, _)
\* index of the first condition of type t at or after position i, 0 if none
FindCondition(conds, t, i) ==
    IF i > Len(conds) THEN 0
    ELSE IF conds[i].Type = t THEN i
    ELSE FindCondition(conds, t, i + 1)

\* an updateCondition that appends without looking for the type
updateConditionAppend(conds, type, status, reason) ==
    Append(conds, [Type |-> type, Status |-> status, Reason |-> reason])

\* an updateCondition that leaves a condition of the type as it finds it
updateConditionKeepFirst(conds, type, status, reason) ==
    LET c == [Type |-> type, Status |-> status, Reason |-> reason]
        i == FindCondition(conds, type, 1)
    IN  IF i # 0 THEN conds ELSE Append(conds, c)

\* updateCondition: replace the first condition of the type, else append
updateCondition(conds, type, status, reason) ==
    LET c == [Type |-> type, Status |-> status, Reason |-> reason]
        i == FindCondition(conds, type, 1)
    IN  IF i # 0 THEN [conds EXCEPT ![i] = c] ELSE Append(conds, c)

\* nlb with a condition updated in memory
WithCondition(n, type, status, reason) ==
    [n EXCEPT !.status.Conditions = updateCondition(@, type, status, reason)]

\* a lookup that never finds a record
ExistingListenersNone(ls, port) == [exists |-> FALSE, id |-> NoId]

RECURSIVE ExistingListeners(_, _)
\* handleListeners: existingListeners[port] once the records of ls were put
\* in the map (a later record of a port overwrites an earlier one)
ExistingListeners(ls, port) ==
    IF ls = <<>> THEN [exists |-> FALSE, id |-> NoId]
    ELSE IF ls[Len(ls)].ListenerPort = port
         THEN [exists |-> TRUE, id |-> ls[Len(ls)].ListenerId]
         ELSE ExistingListeners(SubSeq(ls, 1, Len(ls) - 1), port)

ListenerStatusOf(port, id) ==
    [ListenerPort |-> port, ListenerId |-> id, Status |-> "Active"]

(* ---------------------------------------------------------------------- *)
(* Initial state                                                           *)
(* ---------------------------------------------------------------------- *)

Init ==
    /\ \E spec \in InitialSpecs :
          obj = [exists |-> TRUE, deletionTimestamp |-> FALSE,
                 finalizer |-> FALSE, spec |-> spec, status |-> EmptyStatus]
    /\ nlb = EmptyNlb
    /\ pc = "idle"
    /\ idx = 1
    /\ newListenerStatus = <<>>
    /\ lbId = NoId
    /\ result = NoResult
    /\ calls = <<>>
    /\ events = <<>>
    /\ start = [exists |-> FALSE, view |-> EmptyNlb]
    /\ prev = NoPass
    /\ lbs = <<>>
    /\ lsns = <<>>
    /\ edits = 0
    /\ poll = NoPoll

(* ---------------------------------------------------------------------- *)
(* The API server                                                          *)
(* ---------------------------------------------------------------------- *)

\* r.Get: the answers the API server can give
GetOutcomes == IF obj.exists THEN {"Ok", "Err"} ELSE {"NotFound", "Err"}

\* r.Update and r.Status().Update: a write may fail (conflict with a write
\* of somebody else, API server error) or succeed; the user's writes are
\* taken between two passes, a write of the user during a pass showing to
\* the pass only as the failure of its later writes
WriteOutcomes == IF obj.exists THEN {TRUE, FALSE} ELSE {FALSE}

(* ---------------------------------------------------------------------- *)
(* The provider                                                            *)
(* ---------------------------------------------------------------------- *)

LbPresent(id) == id \in 1..Len(lbs) /\ lbs[id].state # "Deleted"

LsnPresent(id) == id \in 1..Len(lsns) /\ lsns[id].live

\* the listeners of load balancer id disappear with it
DropListenersOf(id) ==
    [k \in 1..Len(lsns) |->
        IF lsns[k].lb = id THEN [lsns[k] EXCEPT !.live = FALSE] ELSE lsns[k]]

\* c.client.GetLoadBalancerAttribute
GetLoadBalancerAttributeOutcomes(id) ==
    IF LbPresent(id) THEN {"Ok", "Err", "Invalid"} ELSE {"NotFound", "Err"}

\* NLBClient.GetLoadBalancer: (body, error) for an answer of the provider
GetLoadBalancer(out, id) ==
    CASE out = "Ok" ->
            [nil |-> FALSE, err |-> FALSE, DNSName |-> DNSNameOf(id),
             LoadBalancerStatus |-> lbs[id].state]
      [] out = "NotFound" ->
            [nil |-> TRUE, err |-> FALSE, DNSName |-> NoId,
             LoadBalancerStatus |-> ""]
      [] OTHER ->
            [nil |-> TRUE, err |-> TRUE, DNSName |-> NoId,
             LoadBalancerStatus |-> ""]

\* the answer of the provider to a call, as the call log words it: the
\* target is not there, the call failed, or the call was accepted
SdkRes(out) ==
    IF out = "NotFound" THEN "NotFound"
    ELSE IF out \in {"Err", "Invalid"} THEN "Err"
    ELSE IF out \in {"Failed", "Timeout", "StatusErr"} THEN "JobErr"
    ELSE "Ok"

\* the answer GetLoadBalancer gave, as the call log words it
GetRes(lb) == IF lb.err THEN "err" ELSE IF lb.nil THEN "nil" ELSE "ok"

\* NLBClient.waitJobFinish: error or nil for the way the job ended
waitJobFinish(job) == job # "Succeeded"

\* the ways the poll loop on an asynchronous job can end
JobOutcomes == {"Succeeded", "Failed", "Timeout", "StatusErr"}

\* a call that may answer with a job: the answers of the provider to the
\* call, or the end of the job it started
JobCallOutcomes == {"Err", "Invalid", "NoJob"} \cup JobOutcomes

\* error or nil of a client function that ends in
\* "if resp.Body.JobId != nil { return c.waitJobFinish(...) }; return nil"
JobCallFails(out) ==
    \/ out \in {"Err", "Invalid"}
    \/ out \in JobOutcomes /\ waitJobFinish(out)

\* whether the provider carried out the operation: always when the call or
\* its job succeeded, possibly when the job was still running or unknown
JobCallEffects(out) ==
    IF out \in {"NoJob", "Succeeded"} THEN {TRUE}
    ELSE IF out \in {"Timeout", "StatusErr"} THEN {TRUE, FALSE}
    ELSE {FALSE}

\* NLBClient.WaitLoadBalancerActive: what the poll loop can end with
WaitOutcomes(id) ==
    IF LbPresent(id)
    THEN (IF lbs[id].state = LoadBalancerStatusActive
          THEN {"Active"} ELSE {"Timeout"}) \cup {"Err"}
    ELSE {"NotFound", "Err"}

\* NLBClient.WaitLoadBalancerActive: error or nil
WaitLoadBalancerActive(out) == out # "Active"

(* ---------------------------------------------------------------------- *)
(* The pass: bookkeeping                                                   *)
(* ---------------------------------------------------------------------- *)

Done(res) == pc' = "done" /\ result' = res

Log(c) == calls' = Append(calls, c)

Record(e) == events' = Append(events, e)

\* the branch of Reconcile the pass took
PassKind ==
    IF ~start.exists THEN "none"
    ELSE IF start.view.deletionTimestamp
         THEN (IF start.view.finalizer THEN "Terminating" ELSE "Released")
         ELSE "Active"

\* the call a finished pass failed in
FailedCall ==
    IF calls # <<>> /\ calls[Len(calls)].res = "err"
    THEN calls[Len(calls)].op ELSE "none"

\* what is remembered of a pass once it has ended: the call it failed in,
\* if that was the wait for the new load balancer or the delete of the load
\* balancer
Summary ==
    IF FailedCall \in {"WaitLoadBalancerActive", "DeleteLoadBalancer"}
    THEN FailedCall ELSE NoPass

(* ---------------------------------------------------------------------- *)
(* Reconcile                                                               *)
(* ---------------------------------------------------------------------- *)

\* a Reconcile that dispatches on the deletion timestamp alone, with a
\* handleDeletion that does not look for the finalizer
ReconcileAnyDeletion ==
    /\ pc = "idle"
    /\ \E out \in GetOutcomes :
          /\ calls' = <<Call("Get", NoId, IF out = "Ok" THEN "ok"
                             ELSE IF out = "Err" THEN "err" ELSE "nil")>>
          /\ nlb' = IF out = "Ok" THEN View(obj) ELSE EmptyNlb
          /\ start' = [exists |-> out = "Ok", view |-> nlb']
          /\ CASE out = "Err" -> Done(Result(FALSE, 0, TRUE))
               [] out = "NotFound" -> Done(NoResult)
               [] OTHER ->
                    /\ result' = NoResult
                    /\ pc' = IF obj.deletionTimestamp
                             THEN "deletion"
                             ELSE (IF obj.finalizer THEN "createOrUpdate"
                                   ELSE "addFinalizer")
    /\ UNCHANGED <<obj, idx, newListenerStatus, lbId, events, prev, lbs, lsns,
                   edits>>
    /\ UNCHANGED poll

\* Reconcile, up to the dispatch on deletion timestamp and finalizer
Reconcile ==
    /\ pc = "idle"
    /\ \E out \in GetOutcomes :
          /\ calls' = <<Call("Get", NoId, IF out = "Ok" THEN "ok"
                             ELSE IF out = "Err" THEN "err" ELSE "nil")>>
          /\ nlb' = IF out = "Ok" THEN View(obj) ELSE EmptyNlb
          /\ start' = [exists |-> out = "Ok", view |-> nlb']
          /\ CASE out = "Err" -> Done(Result(FALSE, 0, TRUE))
               [] out = "NotFound" -> Done(NoResult)
               [] OTHER ->
                    /\ result' = NoResult
                    /\ pc' = IF obj.deletionTimestamp
                             THEN (IF obj.finalizer THEN "deletion" ELSE "done")
                             ELSE (IF obj.finalizer THEN "createOrUpdate"
                                   ELSE "addFinalizer")
    /\ UNCHANGED <<obj, idx, newListenerStatus, lbId, events, prev, lbs, lsns,
                   edits>>
    /\ UNCHANGED poll

\* the pass has returned its result to the dispatcher, which will call
\* Reconcile again; the locals of the pass are gone
Return ==
    /\ pc = "done"
    /\ pc' = "idle"
    /\ prev' = Summary
    /\ nlb' = EmptyNlb
    /\ start' = [exists |-> FALSE, view |-> EmptyNlb]
    /\ result' = NoResult
    /\ calls' = <<>>
    /\ events' = <<>>
    /\ idx' = 1
    /\ newListenerStatus' = <<>>
    /\ lbId' = NoId
    /\ UNCHANGED <<obj, lbs, lsns, edits>>
    /\ UNCHANGED poll

\* a finalizer write that also stores a spec the controller filled in
AddFinalizerDefaulting ==
    /\ pc = "addFinalizer"
    /\ \E ok \in WriteOutcomes :
          IF ok
          THEN /\ obj' = [obj EXCEPT !.finalizer = TRUE,
                                     !.spec.DeletionProtection = FALSE]
               /\ nlb' = View(obj')
               /\ Log(Call("Update", NoId, "ok"))
               /\ pc' = "createOrUpdate"
               /\ UNCHANGED result
          ELSE /\ nlb' = [nlb EXCEPT !.finalizer = TRUE]
               /\ Log(Call("Update", NoId, "err"))
               /\ Done(Result(FALSE, 0, TRUE))
               /\ UNCHANGED obj
    /\ UNCHANGED <<idx, newListenerStatus, lbId, events, start, prev,
                   lbs, lsns, edits>>
    /\ UNCHANGED poll

\* a finalizer write whose failure is only logged
AddFinalizerBestEffort ==
    /\ pc = "addFinalizer"
    /\ \E ok \in WriteOutcomes :
          IF ok
          THEN /\ obj' = [obj EXCEPT !.finalizer = TRUE]
               /\ nlb' = View(obj')
               /\ Log(Call("Update", NoId, "ok"))
          ELSE /\ nlb' = [nlb EXCEPT !.finalizer = TRUE]
               /\ Log(Call("Update", NoId, "err"))
               /\ UNCHANGED obj
    /\ pc' = "createOrUpdate"
    /\ UNCHANGED <<idx, newListenerStatus, lbId, result, events, start, prev,
                   lbs, lsns, edits>>
    /\ UNCHANGED poll

\* Reconcile: controllerutil.AddFinalizer and r.Update
AddFinalizer ==
    /\ pc = "addFinalizer"
    /\ \E ok \in WriteOutcomes :
          IF ok
          THEN /\ obj' = [obj EXCEPT !.finalizer = TRUE]
               /\ nlb' = View(obj')
               /\ Log(Call("Update", NoId, "ok"))
               /\ pc' = "createOrUpdate"
               /\ UNCHANGED result
          ELSE /\ nlb' = [nlb EXCEPT !.finalizer = TRUE]
               /\ Log(Call("Update", NoId, "err"))
               /\ Done(Result(FALSE, 0, TRUE))
               /\ UNCHANGED obj
    /\ UNCHANGED <<idx, newListenerStatus, lbId, events, start, prev,
                   lbs, lsns, edits>>
    /\ UNCHANGED poll

(* ---------------------------------------------------------------------- *)
(* handleCreateOrUpdate                                                    *)
(* ---------------------------------------------------------------------- *)

\* a create decided on the DNS name, which is empty until the wait is over
NeedsCreateByDNSName(n) == n.status.DNSName = NoId

\* a create on every pass
NeedsCreateAlways(n) == TRUE

\* handleCreateOrUpdate: if nlb.Status.LoadBalancerId == ""
NeedsCreate(n) == n.status.LoadBalancerId = NoId

\* c.client.CreateLoadBalancer
CreateLoadBalancerOutcomes ==
    IF Len(lbs) < MaxLb THEN {"Ok", "Err", "Invalid"} ELSE {"Err", "Invalid"}

\* status.LoadBalancerId == "": CreateLoadBalancer, then the status fields
\* and the Provisioning condition in memory
CreateLoadBalancer ==
    /\ pc = "createOrUpdate"
    /\ NeedsCreate(nlb)
    /\ \E out \in CreateLoadBalancerOutcomes :
          IF out = "Ok"
          THEN LET id == Len(lbs) + 1 IN
               /\ lbs' = Append(lbs, [state |-> LoadBalancerStatusProvisioning,
                                      prot |-> nlb.spec.DeletionProtection])
               /\ lbId' = id
               /\ nlb' = WithCondition(
                            [nlb EXCEPT !.status.LoadBalancerId = id,
                                        !.status.LoadBalancerStatus = "Provisioning"],
                            ConditionTypeReady, "False", "Provisioning")
               /\ Log(Call("CreateLoadBalancer", id, "ok"))
               /\ pc' = "persistCreated"
               /\ UNCHANGED <<result, events>>
          ELSE /\ Record(Event("Warning", ReasonReconcileError, "CreateLoadBalancer"))
               /\ nlb' = WithCondition(nlb, ConditionTypeError, "True",
                                       ReasonReconcileError)
               /\ Log(Call("CreateLoadBalancer", NoId, "err"))
               /\ Done(Result(FALSE, RequeueAfterError, TRUE))
               /\ UNCHANGED <<lbs, lbId>>
    /\ UNCHANGED <<obj, idx, newListenerStatus, start, prev, lsns, edits>>
    /\ UNCHANGED poll

\* a status write after the create whose failure is only logged
PersistCreatedBestEffort ==
    /\ pc = "persistCreated"
    /\ \E ok \in WriteOutcomes :
          IF ok
          THEN /\ obj' = [obj EXCEPT !.status = nlb.status]
               /\ Log(Call("StatusUpdate", NoId, "ok"))
          ELSE /\ Log(Call("StatusUpdate", NoId, "err"))
               /\ UNCHANGED obj
    /\ pc' = "wait"
    /\ UNCHANGED <<nlb, idx, newListenerStatus, lbId, result, events, start,
                   prev, lbs, lsns, edits>>
    /\ UNCHANGED poll

\* r.Status().Update right after the create
PersistCreated ==
    /\ pc = "persistCreated"
    /\ \E ok \in WriteOutcomes :
          IF ok
          THEN /\ obj' = [obj EXCEPT !.status = nlb.status]
               /\ Log(Call("StatusUpdate", NoId, "ok"))
               /\ pc' = "wait"
               /\ UNCHANGED result
          ELSE /\ Log(Call("StatusUpdate", NoId, "err"))
               /\ Done(Result(FALSE, 0, TRUE))
               /\ UNCHANGED obj
    /\ UNCHANGED <<nlb, idx, newListenerStatus, lbId, events, start,
                   prev, lbs, lsns, edits>>
    /\ UNCHANGED poll

\* r.NLBClient.WaitLoadBalancerActive(ctx, lbId)
WaitActive ==
    /\ pc = "wait"
    /\ \E out \in WaitOutcomes(lbId) :
          IF WaitLoadBalancerActive(out)
          THEN /\ Record(Event("Warning", ReasonReconcileError, "WaitLoadBalancerActive"))
               /\ Log(Call("WaitLoadBalancerActive", lbId, "err"))
               /\ Done(Result(FALSE, RequeueAfterError, TRUE))
          ELSE /\ Log(Call("WaitLoadBalancerActive", lbId, "ok"))
               /\ pc' = "getCreated"
               /\ UNCHANGED <<result, events>>
    /\ UNCHANGED <<obj, nlb, idx, newListenerStatus, lbId, start, prev,
                   lbs, lsns, edits>>
    /\ UNCHANGED poll

\* r.NLBClient.GetLoadBalancer(ctx, lbId) after the wait, and the two
\* dereferences of its result
GetCreated ==
    /\ pc = "getCreated"
    /\ \E out \in GetLoadBalancerAttributeOutcomes(lbId) :
          LET lb == GetLoadBalancer(out, lbId) IN
          /\ Log(Call("GetLoadBalancer", lbId, GetRes(lb)))
          /\ IF lb.err
             THEN /\ Done(Result(FALSE, RequeueAfterError, TRUE))
                  /\ UNCHANGED <<nlb, events>>
             ELSE IF lb.nil
             THEN /\ Done([Result(FALSE, 0, TRUE) EXCEPT !.panic = TRUE])
                  /\ UNCHANGED <<nlb, events>>
             ELSE /\ nlb' = [nlb EXCEPT !.status.DNSName = lb.DNSName,
                                 !.status.LoadBalancerStatus = lb.LoadBalancerStatus]
                  /\ Record(Event("Normal", ReasonReconcileSuccess, "CreateLoadBalancer"))
                  /\ pc' = "securityGroups"
                  /\ UNCHANGED result
    /\ UNCHANGED <<obj, idx, newListenerStatus, lbId, start, prev, lbs,
                   lsns, edits>>
    /\ UNCHANGED poll

\* a reset that forgets the DNS name and the lifecycle status
DriftResetIdOnly(n) == [n EXCEPT !.status.LoadBalancerId = NoId]

\* the load balancer was deleted externally: reset status
DriftReset(n) ==
    [n EXCEPT !.status.LoadBalancerId = NoId, !.status.DNSName = NoId,
              !.status.LoadBalancerStatus = ""]

\* status.LoadBalancerId != "": GetLoadBalancer, then drift reset or refresh
VerifyLoadBalancer ==
    /\ pc = "createOrUpdate"
    /\ ~NeedsCreate(nlb)
    /\ \E out \in GetLoadBalancerAttributeOutcomes(nlb.status.LoadBalancerId) :
          LET lb == GetLoadBalancer(out, nlb.status.LoadBalancerId) IN
          /\ Log(Call("GetLoadBalancer", nlb.status.LoadBalancerId, GetRes(lb)))
          /\ IF lb.err
             THEN /\ Record(Event("Warning", ReasonReconcileError, "GetLoadBalancer"))
                  /\ nlb' = WithCondition(nlb, ConditionTypeError, "True",
                                          ReasonReconcileError)
                  /\ Done(Result(FALSE, RequeueAfterError, TRUE))
             ELSE IF lb.nil
             THEN /\ nlb' = DriftReset(nlb)
                  /\ pc' = "persistDrift"
                  /\ UNCHANGED <<result, events>>
             ELSE /\ nlb' = [nlb EXCEPT !.status.DNSName = lb.DNSName,
                                 !.status.LoadBalancerStatus = lb.LoadBalancerStatus]
                  /\ pc' = "securityGroups"
                  /\ UNCHANGED <<result, events>>
    /\ UNCHANGED <<obj, idx, newListenerStatus, lbId, start, prev, lbs,
                   lsns, edits>>
    /\ UNCHANGED poll

\* the drift branch: r.Status().Update and the immediate requeue
PersistDrift ==
    /\ pc = "persistDrift"
    /\ \E ok \in WriteOutcomes :
          IF ok
          THEN /\ obj' = [obj EXCEPT !.status = nlb.status]
               /\ Log(Call("StatusUpdate", NoId, "ok"))
               /\ Done(Result(TRUE, 0, FALSE))
          ELSE /\ Log(Call("StatusUpdate", NoId, "err"))
               /\ Done(Result(FALSE, 0, TRUE))
               /\ UNCHANGED obj
    /\ UNCHANGED <<nlb, idx, newListenerStatus, lbId, events, start,
                   prev, lbs, lsns, edits>>
    /\ UNCHANGED poll

(* ---------------------------------------------------------------------- *)
(* handleSecurityGroups and handleListeners                                *)
(* ---------------------------------------------------------------------- *)

\* c.client.LoadBalancerJoinSecurityGroup and the wait for its job
JoinSecurityGroupOutcomes(id) ==
    IF LbPresent(id) THEN JobCallOutcomes ELSE {"Err"}

\* a handleSecurityGroups that calls JoinSecurityGroup for every list
HandleSecurityGroupsUnconditional ==
    /\ pc = "securityGroups"
    /\ \E out \in JoinSecurityGroupOutcomes(nlb.status.LoadBalancerId) :
          IF JobCallFails(out)
          THEN /\ Log(Call("JoinSecurityGroup", nlb.status.LoadBalancerId, "err"))
               /\ Record(Event("Warning", ReasonReconcileError, "JoinSecurityGroup"))
               /\ Done(Result(FALSE, RequeueAfterError, TRUE))
          ELSE /\ Log(Call("JoinSecurityGroup", nlb.status.LoadBalancerId, "ok"))
               /\ pc' = "listeners"
               /\ UNCHANGED <<result, events>>
    /\ idx' = 1
    /\ newListenerStatus' = <<>>
    /\ UNCHANGED <<obj, nlb, lbId, start, prev, lbs, lsns, edits>>
    /\ UNCHANGED poll

\* handleSecurityGroups: nothing for an empty list, else JoinSecurityGroup
HandleSecurityGroups ==
    /\ pc = "securityGroups"
    /\ IF Len(nlb.spec.SecurityGroupIds) = 0
       THEN /\ pc' = "listeners"
            /\ UNCHANGED <<result, calls, events>>
       ELSE \E out \in JoinSecurityGroupOutcomes(nlb.status.LoadBalancerId) :
               IF JobCallFails(out)
               THEN /\ Log(Call("JoinSecurityGroup", nlb.status.LoadBalancerId, "err"))
                    /\ Record(Event("Warning", ReasonReconcileError, "JoinSecurityGroup"))
                    /\ Done(Result(FALSE, RequeueAfterError, TRUE))
               ELSE /\ Log(Call("JoinSecurityGroup", nlb.status.LoadBalancerId, "ok"))
                    /\ pc' = "listeners"
                    /\ UNCHANGED <<result, events>>
    /\ idx' = 1
    /\ newListenerStatus' = <<>>
    /\ UNCHANGED <<obj, nlb, lbId, start, prev, lbs, lsns, edits>>
    /\ UNCHANGED poll

\* a live listener of load balancer id on the port
PortTaken(id, port) ==
    \E k \in 1..Len(lsns) : lsns[k].live /\ lsns[k].lb = id /\ lsns[k].port = port

\* c.client.CreateListener
CreateListenerOutcomes(id, port) ==
    IF LbPresent(id) /\ ~PortTaken(id, port) /\ Len(lsns) < MaxLsn
    THEN {"Ok", "Err", "Invalid"} ELSE {"Err", "Invalid"}

\* handleListeners: one turn of the loop over nlb.Spec.Listeners
HandleListener ==
    /\ pc = "listeners"
    /\ idx <= Len(nlb.spec.Listeners)
    /\ LET port == nlb.spec.Listeners[idx]
           old == ExistingListeners(nlb.status.ListenerStatus, port)
       IN  IF old.exists
           THEN /\ newListenerStatus' =
                       Append(newListenerStatus, ListenerStatusOf(port, old.id))
                /\ idx' = idx + 1
                /\ UNCHANGED <<pc, result, calls, events, lsns>>
           ELSE \E out \in CreateListenerOutcomes(nlb.status.LoadBalancerId, port) :
                   IF out = "Ok"
                   THEN LET id == Len(lsns) + 1 IN
                        /\ lsns' = Append(lsns,
                                      [lb |-> nlb.status.LoadBalancerId,
                                       port |-> port, live |-> TRUE])
                        /\ newListenerStatus' =
                               Append(newListenerStatus, ListenerStatusOf(port, id))
                        /\ Log(PortCall("CreateListener", id, port, "ok"))
                        /\ idx' = idx + 1
                        /\ UNCHANGED <<pc, result, events>>
                   ELSE /\ Log(PortCall("CreateListener", NoId, port, "err"))
                        /\ Record(Event("Warning", ReasonReconcileError, "handleListeners"))
                        /\ Done(Result(FALSE, RequeueAfterError, TRUE))
                        /\ UNCHANGED <<idx, newListenerStatus, lsns>>
    /\ UNCHANGED <<obj, nlb, lbId, start, prev, lbs, edits>>
    /\ UNCHANGED poll

\* a rebuilt list that keeps the records of the ports no longer desired
WithListenerStatusKeepStale(n, new) ==
    [n EXCEPT !.status.ListenerStatus =
        new \o SelectSeq(@, LAMBDA l :
                   \A k \in 1..Len(new) : new[k].ListenerPort # l.ListenerPort)]

\* handleListeners: nlb.Status.ListenerStatus = newListenerStatus
WithListenerStatus(n, new) == [n EXCEPT !.status.ListenerStatus = new]

\* handleListeners returns nil: the rebuilt list replaces the status list,
\* and the Ready condition is set in memory
CompleteListeners ==
    /\ pc = "listeners"
    /\ idx > Len(nlb.spec.Listeners)
    /\ nlb' = WithCondition(WithListenerStatus(nlb, newListenerStatus),
                            ConditionTypeReady, "True", ReasonReconcileSuccess)
    /\ pc' = "persistFinal"
    /\ UNCHANGED <<obj, idx, newListenerStatus, lbId, result, calls,
                   events, start, prev, lbs, lsns, edits>>
    /\ UNCHANGED poll

\* a last status write that returns no resync delay
PersistFinalNoResync ==
    /\ pc = "persistFinal"
    /\ \E ok \in WriteOutcomes :
          IF ok
          THEN /\ obj' = [obj EXCEPT !.status = nlb.status]
               /\ Log(Call("StatusUpdate", NoId, "ok"))
               /\ Record(Event("Normal", ReasonReconcileSuccess, "Reconcile"))
               /\ Done(NoResult)
          ELSE /\ Log(Call("StatusUpdate", NoId, "err"))
               /\ Done(Result(FALSE, 0, TRUE))
               /\ UNCHANGED <<obj, events>>
    /\ UNCHANGED <<nlb, idx, newListenerStatus, lbId, start, prev, lbs,
                   lsns, edits>>
    /\ UNCHANGED poll

\* the last r.Status().Update of handleCreateOrUpdate
PersistFinal ==
    /\ pc = "persistFinal"
    /\ \E ok \in WriteOutcomes :
          IF ok
          THEN /\ obj' = [obj EXCEPT !.status = nlb.status]
               /\ Log(Call("StatusUpdate", NoId, "ok"))
               /\ Record(Event("Normal", ReasonReconcileSuccess, "Reconcile"))
               /\ Done(Result(FALSE, RequeueAfterSuccess, FALSE))
          ELSE /\ Log(Call("StatusUpdate", NoId, "err"))
               /\ Done(Result(FALSE, 0, TRUE))
               /\ UNCHANGED <<obj, events>>
    /\ UNCHANGED <<nlb, idx, newListenerStatus, lbId, start, prev, lbs,
                   lsns, edits>>
    /\ UNCHANGED poll

(* ---------------------------------------------------------------------- *)
(* handleDeletion                                                          *)
(* ---------------------------------------------------------------------- *)

\* a handleDeletion that forgets the load balancer id when it marks the
\* status
MarkDeletingResetId ==
    /\ pc = "deletion"
    /\ IF nlb.status.LoadBalancerStatus # "Deleting"
       THEN /\ nlb' = WithCondition(
                         [nlb EXCEPT !.status.LoadBalancerStatus = "Deleting",
                                     !.status.LoadBalancerId = NoId],
                         ConditionTypeReady, "False", "Deleting")
            /\ \E ok \in WriteOutcomes :
                  IF ok
                  THEN /\ obj' = [obj EXCEPT !.status = nlb'.status]
                       /\ Log(Call("StatusUpdate", NoId, "ok"))
                  ELSE /\ Log(Call("StatusUpdate", NoId, "err"))
                       /\ UNCHANGED obj
       ELSE UNCHANGED <<nlb, obj, calls>>
    /\ pc' = "deleteListeners"
    /\ idx' = 1
    /\ UNCHANGED <<newListenerStatus, lbId, result, events, start, prev,
                   lbs, lsns, edits>>
    /\ UNCHANGED poll

\* a handleDeletion that returns the error of its first status write
MarkDeletingStrict ==
    /\ pc = "deletion"
    /\ IF nlb.status.LoadBalancerStatus # "Deleting"
       THEN /\ nlb' = WithCondition(
                         [nlb EXCEPT !.status.LoadBalancerStatus = "Deleting"],
                         ConditionTypeReady, "False", "Deleting")
            /\ \E ok \in WriteOutcomes :
                  IF ok
                  THEN /\ obj' = [obj EXCEPT !.status = nlb'.status]
                       /\ Log(Call("StatusUpdate", NoId, "ok"))
                       /\ pc' = "deleteListeners"
                       /\ UNCHANGED result
                  ELSE /\ Log(Call("StatusUpdate", NoId, "err"))
                       /\ Done(Result(FALSE, 0, TRUE))
                       /\ UNCHANGED obj
       ELSE /\ pc' = "deleteListeners"
            /\ UNCHANGED <<nlb, obj, calls, result>>
    /\ idx' = 1
    /\ UNCHANGED <<newListenerStatus, lbId, events, start, prev,
                   lbs, lsns, edits>>
    /\ UNCHANGED poll

\* handleDeletion: status "Deleting", written best-effort
MarkDeleting ==
    /\ pc = "deletion"
    /\ IF nlb.status.LoadBalancerStatus # "Deleting"
       THEN /\ nlb' = WithCondition(
                         [nlb EXCEPT !.status.LoadBalancerStatus = "Deleting"],
                         ConditionTypeReady, "False", "Deleting")
            /\ \E ok \in WriteOutcomes :
                  IF ok
                  THEN /\ obj' = [obj EXCEPT !.status = nlb'.status]
                       /\ Log(Call("StatusUpdate", NoId, "ok"))
                  ELSE /\ Log(Call("StatusUpdate", NoId, "err"))
                       /\ UNCHANGED obj
       ELSE UNCHANGED <<nlb, obj, calls>>
    /\ pc' = "deleteListeners"
    /\ idx' = 1
    /\ UNCHANGED <<newListenerStatus, lbId, result, events, start, prev,
                   lbs, lsns, edits>>
    /\ UNCHANGED poll

\* c.client.DeleteListener and the wait for its job
DeleteListenerOutcomes(id) ==
    IF LsnPresent(id) THEN JobCallOutcomes ELSE {"NotFound", "Err"}

\* a DeleteListener for which not found is an error like any other
DeleteListenerStrict(out) == out = "NotFound" \/ JobCallFails(out)

\* a DeleteListener that drops every error
DeleteListenerLenient(out) == FALSE

\* NLBClient.DeleteListener: error or nil; not found is nil
DeleteListener(out) == out # "NotFound" /\ JobCallFails(out)

\* a listener loop that stops one record early
ListenersDeletedEarly == idx >= Len(nlb.status.ListenerStatus)

\* handleDeletion: the loop over nlb.Status.ListenerStatus has ended
ListenersDeleted == idx > Len(nlb.status.ListenerStatus)

\* handleDeletion: one turn of the loop over nlb.Status.ListenerStatus
DeleteListenerStep ==
    /\ pc = "deleteListeners"
    /\ ~ListenersDeleted
    /\ LET id == nlb.status.ListenerStatus[idx].ListenerId IN
       IF id = NoId
       THEN /\ idx' = idx + 1
            /\ UNCHANGED <<pc, result, calls, events, lsns>>
       ELSE \E out \in DeleteListenerOutcomes(id) :
            \E gone \in JobCallEffects(out) :
               /\ lsns' = IF gone THEN [lsns EXCEPT ![id].live = FALSE] ELSE lsns
               /\ IF DeleteListener(out)
                  THEN /\ calls' = calls \o <<Call("sdk.DeleteListener", id, SdkRes(out)),
                                            Call("DeleteListener", id, "err")>>
                       /\ Record(Event("Warning", ReasonDeletionError, "DeleteListener"))
                       /\ Done(Result(FALSE, RequeueAfterError, TRUE))
                       /\ UNCHANGED idx
                  ELSE /\ calls' = calls \o <<Call("sdk.DeleteListener", id, SdkRes(out)),
                                            Call("DeleteListener", id, "ok")>>
                       /\ idx' = idx + 1
                       /\ UNCHANGED <<pc, result, events>>
    /\ UNCHANGED <<obj, nlb, newListenerStatus, lbId, start, prev, lbs,
                   edits>>
    /\ UNCHANGED poll

\* DeleteLoadBalancer returned nil to handleDeletion
DeleteLoadBalancerOk(id, sdk) ==
    /\ calls' = calls \o sdk \o <<Call("DeleteLoadBalancer", id, "ok")>>
    /\ Record(Event("Normal", ReasonDeletionSuccess, "DeleteLoadBalancer"))
    /\ pc' = "removeFinalizer"
    /\ UNCHANGED result

\* DeleteLoadBalancer returned an error to handleDeletion
DeleteLoadBalancerErr(id, sdk) ==
    /\ calls' = calls \o sdk \o <<Call("DeleteLoadBalancer", id, "err")>>
    /\ Record(Event("Warning", ReasonDeletionError, "DeleteLoadBalancer"))
    /\ Done(Result(FALSE, RequeueAfterError, TRUE))

\* handleDeletion after the listener loop: nothing to delete without an id;
\* else DeleteLoadBalancer, which starts with the existence check
DeleteLoadBalancerCheck ==
    /\ pc = "deleteListeners"
    /\ ListenersDeleted
    /\ LET id == nlb.status.LoadBalancerId IN
       IF id = NoId
       THEN /\ pc' = "removeFinalizer"
            /\ UNCHANGED <<result, calls, events>>
       ELSE \E out \in GetLoadBalancerAttributeOutcomes(id) :
               LET lb == GetLoadBalancer(out, id)
                   issue == <<Call("DeleteLoadBalancer", id, "call"),
                              Call("sdk.GetLoadBalancerAttribute", id, SdkRes(out))>>
               IN  IF lb.nil /\ ~lb.err
                   THEN DeleteLoadBalancerOk(id, issue)
                   ELSE /\ calls' = calls \o issue
                        /\ pc' = "disableProtection"
                        /\ UNCHANGED <<result, events>>
    /\ UNCHANGED <<obj, nlb, idx, newListenerStatus, lbId, start, prev,
                   lbs, lsns, edits>>
    /\ UNCHANGED poll

\* c.client.UpdateLoadBalancerProtection
UpdateLoadBalancerProtectionOutcomes(id) ==
    IF LbPresent(id) THEN {"Ok", "Err", "Invalid"} ELSE {"NotFound", "Err"}

\* a protection call that passes enabled = true
DisableProtectionEnabling ==
    /\ pc = "disableProtection"
    /\ LET id == nlb.status.LoadBalancerId IN
       \E out \in UpdateLoadBalancerProtectionOutcomes(id) :
          LET sdk == <<Call("sdk.UpdateLoadBalancerProtection", id, SdkRes(out))>> IN
          /\ lbs' = IF out = "Ok" THEN [lbs EXCEPT ![id].prot = TRUE] ELSE lbs
          /\ IF out = "NotFound"
             THEN DeleteLoadBalancerOk(id, sdk)
             ELSE /\ calls' = calls \o sdk
                  /\ pc' = "deleteLoadBalancer"
                  /\ UNCHANGED <<result, events>>
    /\ UNCHANGED <<obj, nlb, idx, newListenerStatus, lbId, start, prev,
                   lsns, edits>>
    /\ UNCHANGED poll

\* a DeleteLoadBalancer that gives up when the protection call fails
DisableProtectionStrict ==
    /\ pc = "disableProtection"
    /\ LET id == nlb.status.LoadBalancerId IN
       \E out \in UpdateLoadBalancerProtectionOutcomes(id) :
          LET sdk == <<Call("sdk.UpdateLoadBalancerProtection", id, SdkRes(out))>> IN
          /\ lbs' = IF out = "Ok" THEN [lbs EXCEPT ![id].prot = FALSE] ELSE lbs
          /\ IF out = "NotFound"
             THEN DeleteLoadBalancerOk(id, sdk)
             ELSE IF out = "Ok"
             THEN /\ calls' = calls \o sdk
                  /\ pc' = "deleteLoadBalancer"
                  /\ UNCHANGED <<result, events>>
             ELSE DeleteLoadBalancerErr(id, sdk)
    /\ UNCHANGED <<obj, nlb, idx, newListenerStatus, lbId, start, prev,
                   lsns, edits>>
    /\ UNCHANGED poll

\* DeleteLoadBalancer: UpdateLoadBalancerProtection(ctx, lbId, false, "")
DisableProtection ==
    /\ pc = "disableProtection"
    /\ LET id == nlb.status.LoadBalancerId IN
       \E out \in UpdateLoadBalancerProtectionOutcomes(id) :
          LET sdk == <<Call("sdk.UpdateLoadBalancerProtection", id, SdkRes(out))>> IN
          /\ lbs' = IF out = "Ok" THEN [lbs EXCEPT ![id].prot = FALSE] ELSE lbs
          /\ IF out = "NotFound"
             THEN DeleteLoadBalancerOk(id, sdk)
             ELSE /\ calls' = calls \o sdk
                  /\ pc' = "deleteLoadBalancer"
                  /\ UNCHANGED <<result, events>>
    /\ UNCHANGED <<obj, nlb, idx, newListenerStatus, lbId, start, prev,
                   lsns, edits>>
    /\ UNCHANGED poll

\* c.client.DeleteLoadBalancer and the wait for its job; the provider
\* refuses to delete a load balancer whose deletion protection is on
DeleteLoadBalancerOutcomes(id) ==
    IF ~LbPresent(id) THEN {"NotFound", "Err"}
    ELSE IF lbs[id].prot THEN {"Err"}
    ELSE JobCallOutcomes

\* a delete call for which not found is an error like any other
DeleteLoadBalancerFailsStrict(out) == out = "NotFound" \/ JobCallFails(out)

\* DeleteLoadBalancer: error or nil after the delete call; not found is nil
DeleteLoadBalancerFails(out) == out # "NotFound" /\ JobCallFails(out)

\* DeleteLoadBalancer: the delete call, the wait for its job, and the
\* return to handleDeletion
DeleteLoadBalancer ==
    /\ pc = "deleteLoadBalancer"
    /\ LET id == nlb.status.LoadBalancerId IN
       \E out \in DeleteLoadBalancerOutcomes(id) :
       \E gone \in JobCallEffects(out) :
          LET sdk == <<Call("sdk.DeleteLoadBalancer", id, SdkRes(out))>> IN
          /\ lbs' = IF gone THEN [lbs EXCEPT ![id].state = "Deleted"] ELSE lbs
          /\ lsns' = IF gone THEN DropListenersOf(id) ELSE lsns
          /\ IF DeleteLoadBalancerFails(out)
             THEN DeleteLoadBalancerErr(id, sdk)
             ELSE DeleteLoadBalancerOk(id, sdk)
    /\ UNCHANGED <<obj, nlb, idx, newListenerStatus, lbId, start, prev,
                   edits>>
    /\ UNCHANGED poll

\* a handleDeletion that removes the finalizer from its copy of the object
\* and returns without writing it
RemoveFinalizerInMemory ==
    /\ pc = "removeFinalizer"
    /\ nlb' = [nlb EXCEPT !.finalizer = FALSE]
    /\ Done(NoResult)
    /\ UNCHANGED <<obj, calls>>
    /\ UNCHANGED <<idx, newListenerStatus, lbId, events, start, prev,
                   lbs, lsns, edits>>
    /\ UNCHANGED poll

\* handleDeletion: controllerutil.RemoveFinalizer and r.Update; the API
\* server removes an object under deletion once its last finalizer is gone
RemoveFinalizer ==
    /\ pc = "removeFinalizer"
    /\ nlb' = [nlb EXCEPT !.finalizer = FALSE]
    /\ \E ok \in WriteOutcomes :
          IF ok
          THEN /\ obj' = [obj EXCEPT !.finalizer = FALSE, !.exists = FALSE]
               /\ Log(Call("Update", NoId, "ok"))
               /\ Done(NoResult)
          ELSE /\ Log(Call("Update", NoId, "err"))
               /\ Done(Result(FALSE, 0, TRUE))
               /\ UNCHANGED obj
    /\ UNCHANGED <<idx, newListenerStatus, lbId, events, start, prev,
                   lbs, lsns, edits>>
    /\ UNCHANGED poll

(* ---------------------------------------------------------------------- *)
(* The user and the provider                                               *)
(* ---------------------------------------------------------------------- *)

\* the user replaces the listener list of the spec
UserEditListeners ==
    /\ pc = "idle"
    /\ obj.exists
    /\ edits < MaxEdits
    /\ \E ls \in ListenerSpecs \ {obj.spec.Listeners} :
          obj' = [obj EXCEPT !.spec.Listeners = ls]
    /\ edits' = edits + 1
    /\ UNCHANGED <<nlb, pc, idx, newListenerStatus, lbId, result, calls,
                   events, start, prev, lbs, lsns>>
    /\ UNCHANGED poll

\* the user deletes the object: with the finalizer of the controller it
\* gets a deletion timestamp; without it the object is removed, or, when a
\* finalizer of somebody else holds it (a foreground deletion), it gets a
\* deletion timestamp as well
UserDelete ==
    /\ pc = "idle"
    /\ obj.exists
    /\ ~obj.deletionTimestamp
    /\ \E held \in BOOLEAN :
          obj' = IF obj.finalizer \/ held
                 THEN [obj EXCEPT !.deletionTimestamp = TRUE]
                 ELSE [obj EXCEPT !.exists = FALSE]
    /\ UNCHANGED <<nlb, pc, idx, newListenerStatus, lbId, result, calls,
                   events, start, prev, lbs, lsns, edits>>
    /\ UNCHANGED poll

\* the object under deletion that the finalizer of the controller does not
\* hold is removed once the others have let go of it
ForeignRelease ==
    /\ pc = "idle"
    /\ obj.exists
    /\ obj.deletionTimestamp
    /\ ~obj.finalizer
    /\ obj' = [obj EXCEPT !.exists = FALSE]
    /\ UNCHANGED <<nlb, pc, idx, newListenerStatus, lbId, result, calls,
                   events, start, prev, lbs, lsns, edits>>
    /\ UNCHANGED poll

\* a load balancer finishes provisioning
ProviderActivate ==
    /\ pc # "done"
    /\ \E id \in 1..Len(lbs) :
          /\ lbs[id].state = LoadBalancerStatusProvisioning
          /\ lbs' = [lbs EXCEPT ![id].state = LoadBalancerStatusActive]
    /\ UNCHANGED <<obj, passVars, lsns, edits>>
    /\ UNCHANGED poll

\* a load balancer is deleted behind the controller's back
ExternalDelete ==
    /\ pc # "done"
    /\ \E id \in 1..Len(lbs) :
          /\ LbPresent(id)
          /\ lbs' = [lbs EXCEPT ![id].state = "Deleted"]
          /\ lsns' = DropListenersOf(id)
    /\ UNCHANGED <<obj, passVars, edits>>
    /\ UNCHANGED poll

(* ---------------------------------------------------------------------- *)
(* Specification                                                           *)
(* ---------------------------------------------------------------------- *)

Next ==
    \/ Reconcile
    \/ Return
    \/ AddFinalizer
    \/ CreateLoadBalancer
    \/ PersistCreated
    \/ WaitActive
    \/ GetCreated
    \/ VerifyLoadBalancer
    \/ PersistDrift
    \/ HandleSecurityGroups
    \/ HandleListener
    \/ CompleteListeners
    \/ PersistFinal
    \/ MarkDeleting
    \/ DeleteListenerStep
    \/ DeleteLoadBalancerCheck
    \/ DisableProtection
    \/ DeleteLoadBalancer
    \/ RemoveFinalizer
    \/ UserEditListeners
    \/ UserDelete
    \/ ForeignRelease
    \/ ProviderActivate
    \/ ExternalDelete

Spec == Init /\ [][Next]_vars

TypeOK ==
    /\ pc \in {"idle", "done", "addFinalizer", "createOrUpdate",
               "persistCreated", "wait", "getCreated", "persistDrift",
               "securityGroups", "listeners", "persistFinal", "deletion",
               "deleteListeners", "disableProtection", "deleteLoadBalancer",
               "removeFinalizer"}
    /\ Len(lbs) <= MaxLb
    /\ Len(lsns) <= MaxLsn
    /\ edits <= MaxEdits

(* ---------------------------------------------------------------------- *)
(* Reading the call log                                                    *)
(* ---------------------------------------------------------------------- *)

\* positions of the entries of the given calls
At(ops) == {k \in 1..Len(calls) : calls[k].op \in ops}

\* the entries of one call, in order
Entries(op) == SelectSeq(calls, LAMBDA c : c.op = op)

\* the provider ids a sequence of entries is about
Args(es) == [k \in 1..Len(es) |-> es[k].arg]

\* the listener ids a status records, in listed order, empty ids left out
RecordedIds(status) ==
    LET rs == SelectSeq(status.ListenerStatus, LAMBDA l : l.ListenerId # NoId)
    IN  [k \in 1..Len(rs) |-> rs[k].ListenerId]

IsPrefix(a, b) == Len(a) <= Len(b) /\ SubSeq(b, 1, Len(a)) = a

ListenerDeleteOps == {"DeleteListener", "sdk.DeleteListener"}

LbDeleteOps ==
    {"DeleteLoadBalancer", "sdk.GetLoadBalancerAttribute",
     "sdk.UpdateLoadBalancerProtection", "sdk.DeleteLoadBalancer"}

\* the answers of the provider that make a client function fail
SdkFailures == {"Err", "JobErr"}

(* ---------------------------------------------------------------------- *)
(* Claims                                                                  *)
(* ---------------------------------------------------------------------- *)

\* C1: in a Terminating pass the DeleteListener calls go through the
\* listeners recorded in status in listed order; every call of
\* DeleteLoadBalancer comes after a DeleteListener call for each of them; the
\* finalizer is removed only after the load-balancer step (a successful
\* DeleteLoadBalancer when an id is recorded), and by no other step.
C1_DeletionOrder ==
    PassKind = "Terminating" =>
        LET recorded == RecordedIds(start.view.status)
            deleted == Args(Entries("DeleteListener"))
        IN  /\ IsPrefix(deleted, recorded)
            /\ \A k \in At(LbDeleteOps \cup {"Update"}) :
                  /\ deleted = recorded
                  /\ \A j \in At(ListenerDeleteOps) : j < k
            /\ \A k \in At({"Update"}) :
                  /\ \A j \in At(LbDeleteOps) : j < k
                  /\ start.view.status.LoadBalancerId # NoId =>
                        \E j \in 1..(k - 1) :
                           calls[j] = Call("DeleteLoadBalancer",
                                           start.view.status.LoadBalancerId, "ok")
            /\ ~obj.finalizer =>
                  /\ pc = "done"
                  /\ calls[Len(calls)] = Call("Update", NoId, "ok")

\* C1 witness: a Terminating pass that deleted two listeners, then the load
\* balancer, then removed the finalizer
C1_Witness ==
    /\ PassKind = "Terminating"
    /\ pc = "done"
    /\ ~obj.finalizer
    /\ Len(Entries("DeleteListener")) = 2
    /\ \E k \in At({"DeleteLoadBalancer"}) : calls[k].res = "ok"

\* C2: in a Terminating pass a failed DeleteListener or DeleteLoadBalancer
\* ends the pass with the error and RequeueAfter 30s and leaves the finalizer
\* set; an error of the provider or of the job makes the call fail; the
\* finalizer is gone only if a DeleteListener for every recorded listener and
\* the DeleteLoadBalancer for the recorded id returned nil.
C2_GuardOnlyAfterSuccess ==
    PassKind = "Terminating" =>
        /\ \A k \in At({"DeleteListener", "DeleteLoadBalancer"}) :
              calls[k].res = "err" =>
                 /\ k = Len(calls)
                 /\ pc = "done"
                 /\ result = Result(FALSE, RequeueAfterError, TRUE)
                 /\ obj.exists /\ obj.finalizer
        /\ \A k \in At({"sdk.DeleteListener"}) :
              calls[k].res \in SdkFailures =>
                 calls[k + 1] = Call("DeleteListener", calls[k].arg, "err")
        /\ \A k \in At({"sdk.DeleteLoadBalancer"}) :
              calls[k].res \in SdkFailures =>
                 calls[k + 1] = Call("DeleteLoadBalancer", calls[k].arg, "err")
        /\ ~obj.finalizer =>
              /\ \A k \in At({"DeleteListener", "DeleteLoadBalancer"}) :
                    calls[k].res # "err"
              /\ LET ids == RecordedIds(start.view.status) IN
                 \A i \in 1..Len(ids) :
                    \E k \in At({"DeleteListener"}) :
                       calls[k].arg = ids[i] /\ calls[k].res = "ok"
              /\ start.view.status.LoadBalancerId # NoId =>
                    \E k \in At({"DeleteLoadBalancer"}) : calls[k].res = "ok"

\* C2 witness: a Terminating pass that deleted a listener and then failed in
\* DeleteLoadBalancer; the finalizer is still set
C2_Witness ==
    /\ PassKind = "Terminating"
    /\ pc = "done"
    /\ FailedCall = "DeleteLoadBalancer"
    /\ Len(Entries("DeleteListener")) >= 1
    /\ obj.finalizer

\* C3: an Active pass that read a non-empty status.loadBalancerId issues no
\* CreateLoadBalancer and no WaitLoadBalancerActive; its first call to the
\* provider is GetLoadBalancer for the recorded id, and the id in memory
\* stays the recorded one unless the drift branch empties it.
C3_NoCreateWhenRecorded ==
    (PassKind = "Active" /\ start.view.status.LoadBalancerId # NoId) =>
        /\ At({"CreateLoadBalancer", "WaitLoadBalancerActive"}) = {}
        /\ lbId = NoId
        /\ \A k \in 1..Len(calls) :
              calls[k].op \notin {"Get", "Update"} =>
                 \E j \in 1..k :
                    /\ calls[j].op = "GetLoadBalancer"
                    /\ calls[j].arg = start.view.status.LoadBalancerId
                    /\ \A i \in 1..(j - 1) : calls[i].op \in {"Get", "Update"}
        /\ nlb.status.LoadBalancerId \in {start.view.status.LoadBalancerId, NoId}
        /\ nlb.status.LoadBalancerId = NoId =>
              \E k \in At({"GetLoadBalancer"}) : calls[k].res = "nil"

\* C3 witness: the pass after a failed wait finds the id recorded, verifies
\* the load balancer and ends in the steady-state resync
C3_Witness ==
    /\ PassKind = "Active"
    /\ prev = "WaitLoadBalancerActive"
    /\ start.view.status.LoadBalancerId # NoId
    /\ pc = "done"
    /\ result = Result(FALSE, RequeueAfterSuccess, FALSE)

\* the current pass is in the drift branch: an Active pass that read a
\* non-empty id and whose GetLoadBalancer answered nil, nil
InDriftBranch ==
    /\ PassKind = "Active"
    /\ start.view.status.LoadBalancerId # NoId
    /\ \E k \in At({"GetLoadBalancer"}) : calls[k].res = "nil"

\* C4 as claimed: a pass that went through the drift branch always ends with
\* the three fields empty in the persisted status and an immediate requeue
\* with no error, having issued no security-group or listener call.
C4_DriftAlwaysPersisted ==
    (InDriftBranch /\ pc = "done") =>
        /\ obj.status.LoadBalancerId = NoId
        /\ obj.status.DNSName = NoId
        /\ obj.status.LoadBalancerStatus = ""
        /\ result = Result(TRUE, 0, FALSE)
        /\ At({"JoinSecurityGroup", "CreateListener"}) = {}

\* C4 as amended: the drift branch empties the three fields in memory and
\* issues no security-group or listener call; the pass ends with the status
\* write: when it succeeds the persisted status has the three fields empty
\* and the pass returns Requeue with no error, when it fails the persisted
\* status is as the pass read it and the pass returns the error with no
\* requeue directive.
C4_DriftReset ==
    InDriftBranch =>
        /\ At({"JoinSecurityGroup", "CreateListener"}) = {}
        /\ nlb.status.LoadBalancerId = NoId
        /\ nlb.status.DNSName = NoId
        /\ nlb.status.LoadBalancerStatus = ""
        /\ pc \in {"persistDrift", "done"}
        /\ pc = "done" =>
              /\ calls[Len(calls)].op = "StatusUpdate"
              /\ IF calls[Len(calls)].res = "ok"
                 THEN /\ obj.status.LoadBalancerId = NoId
                      /\ obj.status.DNSName = NoId
                      /\ obj.status.LoadBalancerStatus = ""
                      /\ result = Result(TRUE, 0, FALSE)
                 ELSE /\ obj.status = start.view.status
                      /\ result = Result(FALSE, 0, TRUE)

\* C4 witness: a drift pass that has persisted the reset of a status which
\* held an id, a DNS name and a lifecycle status
C4_Witness ==
    /\ InDriftBranch
    /\ pc = "done"
    /\ start.view.status.DNSName # NoId
    /\ start.view.status.LoadBalancerStatus = LoadBalancerStatusActive
    /\ obj.status.LoadBalancerId = NoId
    /\ result = Result(TRUE, 0, FALSE)

ProvisioningCondition ==
    [Type |-> ConditionTypeReady, Status |-> "False", Reason |-> "Provisioning"]

\* C5: WaitLoadBalancerActive is only ever called right after a successful
\* status write that follows the successful create of the id it waits for;
\* when the wait is about to start the persisted status holds that id, the
\* lifecycle status "Provisioning" and the condition Ready=False with
\* reason Provisioning, and the id stays persisted for the rest of the pass.
C5_PersistBeforeWait ==
    /\ pc = "wait" =>
          /\ lbId # NoId
          /\ obj.status.LoadBalancerId = lbId
          /\ obj.status.LoadBalancerStatus = "Provisioning"
          /\ \E i \in 1..Len(obj.status.Conditions) :
                obj.status.Conditions[i] = ProvisioningCondition
          /\ calls[Len(calls)] = Call("StatusUpdate", NoId, "ok")
          /\ calls[Len(calls) - 1] = Call("CreateLoadBalancer", lbId, "ok")
    /\ \A k \in At({"WaitLoadBalancerActive"}) :
          /\ k >= 3
          /\ calls[k].arg # NoId
          /\ calls[k - 1] = Call("StatusUpdate", NoId, "ok")
          /\ calls[k - 2] = Call("CreateLoadBalancer", calls[k].arg, "ok")
          /\ obj.status.LoadBalancerId = calls[k].arg

\* C5 witness: the wait has run for a load balancer created in this pass
C5_Witness ==
    /\ pc = "getCreated"
    /\ \E k \in At({"WaitLoadBalancerActive"}) :
          calls[k].arg = lbId /\ calls[k].res = "ok"
    /\ LbPresent(lbId)

\* C6: a pass that fails in WaitLoadBalancerActive returns the error with
\* RequeueAfter 30s and leaves the created id in the persisted status; the
\* Active pass that follows reads a non-empty id, issues no
\* CreateLoadBalancer and starts with GetLoadBalancer for the recorded id.
C6_WaitFailureResumes ==
    /\ (pc = "done" /\ FailedCall = "WaitLoadBalancerActive") =>
          /\ result = Result(FALSE, RequeueAfterError, TRUE)
          /\ lbId # NoId
          /\ obj.status.LoadBalancerId = lbId
    /\ (prev = "WaitLoadBalancerActive" /\ PassKind = "Active") =>
          /\ start.view.status.LoadBalancerId # NoId
          /\ At({"CreateLoadBalancer"}) = {}
          /\ Len(calls) >= 2 =>
                /\ calls[2].op = "GetLoadBalancer"
                /\ calls[2].arg = start.view.status.LoadBalancerId

\* C6 witness: the Active pass after a failed wait has found the load
\* balancer it had created
C6_Witness ==
    /\ prev = "WaitLoadBalancerActive"
    /\ PassKind = "Active"
    /\ Len(calls) >= 2
    /\ calls[2] = Call("GetLoadBalancer", start.view.status.LoadBalancerId, "ok")

\* the records of a port in the status the pass read
RecordsOf(port) ==
    {r \in 1..Len(start.view.status.ListenerStatus) :
        start.view.status.ListenerStatus[r].ListenerPort = port}

\* the CreateListener calls of the pass for a port
CreatesOf(port) == {k \in At({"CreateListener"}) : calls[k].port = port}

\* C7: when handleListeners has returned nil, the rebuilt list has one
\* record per desired port; a port with a record in the status the pass
\* read keeps the recorded listener id and no CreateListener was issued for
\* it; a port with no record got exactly one CreateListener, which
\* succeeded, and the id it returned is recorded for the port.
C7_ListenerDiff ==
    pc = "persistFinal" =>
        LET want == start.view.spec.Listeners
            old == start.view.status.ListenerStatus
            new == nlb.status.ListenerStatus
        IN  /\ Len(new) = Len(want)
            /\ \A i \in 1..Len(want) :
                  /\ new[i].ListenerPort = want[i]
                  /\ IF RecordsOf(want[i]) # {}
                     THEN /\ CreatesOf(want[i]) = {}
                          /\ \A r \in RecordsOf(want[i]) :
                                new[i].ListenerId = old[r].ListenerId
                     ELSE \E k \in CreatesOf(want[i]) :
                             /\ CreatesOf(want[i]) = {k}
                             /\ calls[k].res = "ok"
                             /\ calls[k].arg # NoId
                             /\ new[i].ListenerId = calls[k].arg
                             /\ lsns[calls[k].arg].port = want[i]
                             /\ lsns[calls[k].arg].lb = nlb.status.LoadBalancerId

\* C7 witness: handleListeners has returned nil for two desired ports, one
\* with a record and one without
C7_Witness ==
    /\ pc = "persistFinal"
    /\ \E i, j \in 1..Len(start.view.spec.Listeners) :
          /\ RecordsOf(start.view.spec.Listeners[i]) # {}
          /\ RecordsOf(start.view.spec.Listeners[j]) = {}
          /\ CreatesOf(start.view.spec.Listeners[j]) # {}

\* the ports a list of listener records is about, in order
PortsOf(ls) == [k \in 1..Len(ls) |-> ls[k].ListenerPort]

\* C8: an Active pass issues no DeleteListener (and no load balancer delete);
\* the list handleListeners rebuilds is about exactly the desired ports in
\* the order of the spec, so the record of a port that left the desired list
\* is dropped, and that list is what the final status write persists.
C8_NoDeleteInActive ==
    PassKind = "Active" =>
        /\ At(ListenerDeleteOps \cup LbDeleteOps) = {}
        /\ pc = "persistFinal" =>
              PortsOf(nlb.status.ListenerStatus) = start.view.spec.Listeners
        /\ (/\ pc = "done"
            /\ result = Result(FALSE, RequeueAfterSuccess, FALSE)) =>
              PortsOf(obj.status.ListenerStatus) = start.view.spec.Listeners

\* C8 witness: an Active pass has persisted a list without the record of a
\* port that left the desired list, whose listener is still at the provider
C8_Witness ==
    /\ PassKind = "Active"
    /\ pc = "done"
    /\ result = Result(FALSE, RequeueAfterSuccess, FALSE)
    /\ \E r \in 1..Len(start.view.status.ListenerStatus) :
          LET l == start.view.status.ListenerStatus[r] IN
          /\ \A i \in 1..Len(obj.status.ListenerStatus) :
                obj.status.ListenerStatus[i].ListenerPort # l.ListenerPort
          /\ LsnPresent(l.ListenerId)

\* the Terminating pass that follows one that deleted every recorded
\* listener and failed in DeleteLoadBalancer
AfterFailedLbDelete == prev = "DeleteLoadBalancer" /\ PassKind = "Terminating"

\* C9 as claimed: the Terminating pass after one that failed in
\* DeleteLoadBalancer issues no DeleteListener for the listeners already
\* deleted, and does not fail on their absence.
C9_NoSecondDeleteListener ==
    AfterFailedLbDelete =>
        /\ At(ListenerDeleteOps) = {}
        /\ \A k \in At({"DeleteListener"}) : calls[k].res = "ok"

\* C9 as amended: the Terminating pass after one that failed in
\* DeleteLoadBalancer issues DeleteListener again for every recorded
\* listener, in listed order and before the load balancer delete; the
\* provider no longer has these listeners, and its not-found answer makes
\* DeleteListener return nil, so the pass goes on to the load balancer.
C9_Reentrant ==
    AfterFailedLbDelete =>
        /\ IsPrefix(Args(Entries("DeleteListener")), RecordedIds(start.view.status))
        /\ At(LbDeleteOps) # {} =>
              Args(Entries("DeleteListener")) = RecordedIds(start.view.status)
        /\ \A k \in At({"sdk.DeleteListener"}) :
              /\ ~LsnPresent(calls[k].arg)
              /\ calls[k].res \in {"NotFound", "Err"}
              /\ calls[k].res = "NotFound" =>
                    calls[k + 1] = Call("DeleteListener", calls[k].arg, "ok")

\* C9 witness: the second pass has deleted the load balancer and released
\* the guard after a DeleteListener answered not found
C9_Witness ==
    /\ AfterFailedLbDelete
    /\ \E k \in At({"sdk.DeleteListener"}) : calls[k].res = "NotFound"
    /\ \E k \in At({"sdk.DeleteLoadBalancer"}) : calls[k].res = "Ok"
    /\ pc = "done"
    /\ ~obj.finalizer

SdkDeleteOps ==
    {"sdk.DeleteListener", "sdk.GetLoadBalancerAttribute",
     "sdk.UpdateLoadBalancerProtection", "sdk.DeleteLoadBalancer"}

AllCallsOk == \A k \in 1..Len(calls) : calls[k].res = "ok"

\* the conditions of a type in a status
ConditionsOf(status, type) ==
    {i \in 1..Len(status.Conditions) : status.Conditions[i].Type = type}

\* C11: an Active pass that has ended with every API-server call and every
\* provider call successful (every get found what it asked for) has written
\* the status last and returns RequeueAfter 5min with no error; the
\* persisted status holds a non-empty loadBalancerId, one Ready condition,
\* with status True and reason ReconcileSuccess, and one listener record
\* with a non-empty id per desired port, in the order of the spec (no record
\* when the spec has no listener).
C11_FullSuccess ==
    (PassKind = "Active" /\ pc = "done" /\ AllCallsOk) =>
        /\ calls[Len(calls)] = Call("StatusUpdate", NoId, "ok")
        /\ result = Result(FALSE, RequeueAfterSuccess, FALSE)
        /\ ~result.panic
        /\ obj.status.LoadBalancerId # NoId
        /\ \E i \in ConditionsOf(obj.status, ConditionTypeReady) :
              /\ ConditionsOf(obj.status, ConditionTypeReady) = {i}
              /\ obj.status.Conditions[i].Status = "True"
              /\ obj.status.Conditions[i].Reason = ReasonReconcileSuccess
        /\ PortsOf(obj.status.ListenerStatus) = start.view.spec.Listeners
        /\ \A i \in 1..Len(obj.status.ListenerStatus) :
              obj.status.ListenerStatus[i].ListenerId # NoId

\* C11 witness: a fully successful Active pass that created the load
\* balancer, joined a security group and created a listener
C11_Witness ==
    /\ PassKind = "Active"
    /\ pc = "done"
    /\ AllCallsOk
    /\ At({"CreateLoadBalancer"}) # {}
    /\ At({"JoinSecurityGroup"}) # {}
    /\ At({"CreateListener"}) # {}
    /\ Len(obj.status.ListenerStatus) = Len(start.view.spec.Listeners)

\* a status carries an Error=True condition
HasErrorCondition(status) ==
    \E i \in ConditionsOf(status, ConditionTypeError) :
        status.Conditions[i].Status = "True"

\* C12: an Active pass that has failed in the security-group join or in the
\* listener reconciliation returns the error with RequeueAfter 30s, and the
\* status of the resource, as the pass holds it or as it is persisted,
\* carries an Error=True condition.
C12_ErrorConditionOnSubStepFailure ==
    (/\ PassKind = "Active"
     /\ pc = "done"
     /\ FailedCall \in {"JoinSecurityGroup", "CreateListener"}) =>
        /\ result = Result(FALSE, RequeueAfterError, TRUE)
        /\ HasErrorCondition(nlb.status) \/ HasErrorCondition(obj.status)

\* C13: when a pass has ended, every warning event it recorded has its
\* reason code on a condition of the persisted status.
C13_EventConditionInSync ==
    pc = "done" =>
        \A e \in 1..Len(events) :
            events[e].type = "Warning" =>
                \E i \in 1..Len(obj.status.Conditions) :
                    obj.status.Conditions[i].Reason = events[e].reason

(* ---------------------------------------------------------------------- *)
(* The condition ledger: updateCondition applied to every input            *)
(* ---------------------------------------------------------------------- *)

\* the condition types, statuses and reasons updateCondition is applied to:
\* the two types the reconciler uses and a third one
CondTypes == {ConditionTypeReady, ConditionTypeError, "Progressing"}

CondStatuses == {"True", "False"}

CondReasons == {ReasonReconcileSuccess, ReasonReconcileError, "Provisioning"}

\* the call log entry of an updateCondition call
ConditionCall(type, status, reason) ==
    [op |-> "updateCondition", Type |-> type, Status |-> status,
     Reason |-> reason]

\* a new object, whose ledger is empty, in the hands of a pass that is
\* about to call updateCondition
InitLedger ==
    /\ obj = [exists |-> TRUE, deletionTimestamp |-> FALSE,
              finalizer |-> TRUE, spec |-> NLBSpec(<<>>, <<>>, FALSE),
              status |-> EmptyStatus]
    /\ nlb = View(obj)
    /\ pc = "updateCondition"
    /\ idx = 1
    /\ newListenerStatus = <<>>
    /\ lbId = NoId
    /\ result = NoResult
    /\ calls = <<>>
    /\ events = <<>>
    /\ start = [exists |-> TRUE, view |-> View(obj)]
    /\ prev = NoPass
    /\ lbs = <<>>
    /\ lsns = <<>>
    /\ edits = 0
    /\ poll = NoPoll

\* r.updateCondition(ctx, nlb, type, status, reason, message); start keeps
\* the object as it was before the call, calls the call
ApplyUpdateCondition ==
    /\ pc = "updateCondition"
    /\ Len(nlb.status.Conditions) <= MaxConds
    /\ \E type \in CondTypes, status \in CondStatuses, reason \in CondReasons :
          /\ nlb' = WithCondition(nlb, type, status, reason)
          /\ calls' = <<ConditionCall(type, status, reason)>>
    /\ start' = [start EXCEPT !.view = nlb]
    /\ UNCHANGED <<obj, pc, idx, newListenerStatus, lbId, result, events,
                   prev, lbs, lsns, edits>>
    /\ UNCHANGED poll

NextLedger == ApplyUpdateCondition

SpecLedger == InitLedger /\ [][NextLedger]_vars

\* C14: after any sequence of updateCondition calls on an empty ledger the
\* ledger holds at most one condition per type; a call for a type the
\* ledger holds leaves the length of the ledger and every other entry as
\* they were and puts the condition of the call, with its status and
\* reason, at the position of the type; a call for a type the ledger does
\* not hold appends the condition of the call at the end.
C14_LedgerUnique ==
    LET new == nlb.status.Conditions
        old == start.view.status.Conditions
    IN  /\ \A i, j \in 1..Len(new) : new[i].Type = new[j].Type => i = j
        /\ calls # <<>> =>
              LET c == [Type |-> calls[1].Type, Status |-> calls[1].Status,
                        Reason |-> calls[1].Reason]
                  at == {i \in 1..Len(old) : old[i].Type = c.Type}
              IN  IF at = {}
                  THEN new = old \o <<c>>
                  ELSE /\ Len(new) = Len(old)
                       /\ \A i \in 1..Len(old) :
                             new[i] = IF i \in at THEN c ELSE old[i]

\* C14 witness: a call has replaced the middle entry of a ledger of three
\* types by a condition with another status and another reason
C14_Witness ==
    /\ pc = "updateCondition"
    /\ calls # <<>>
    /\ Len(start.view.status.Conditions) = 3
    /\ start.view.status.Conditions[2].Type = calls[1].Type
    /\ start.view.status.Conditions[2].Status # calls[1].Status
    /\ start.view.status.Conditions[2].Reason # calls[1].Reason
    /\ nlb.status.Conditions[2].Reason = calls[1].Reason
    /\ Len(nlb.status.Conditions) = 3

\* the provider calls of the pass, in order
ProviderOps ==
    LET es == SelectSeq(calls, LAMBDA c : c.op \in SdkDeleteOps)
    IN  [k \in 1..Len(es) |-> es[k].op]

\* a Terminating pass over one recorded listener and a recorded load
\* balancer, with the guard set, in which every provider call so far
\* succeeded
DeletionScenario ==
    /\ PassKind = "Terminating"
    /\ start.view.finalizer
    /\ Len(start.view.status.ListenerStatus) = 1
    /\ start.view.status.ListenerStatus[1].ListenerId # NoId
    /\ start.view.status.LoadBalancerId # NoId
    /\ \A k \in At(SdkDeleteOps) : calls[k].res = "Ok"

DeleteDecides(res) == IF res \in {"Ok", "NotFound"} THEN "ok" ELSE "err"

\* C16: every provider delete call of a load balancer directly follows the
\* protection call for the same load balancer, which did not answer not
\* found; a protection call that answers not found is directly followed by
\* the nil return of DeleteLoadBalancer, with no delete call; after a
\* protection call with any other answer, an error included, the delete
\* call is the next call and DeleteLoadBalancer returns what the delete
\* call decides: nil when it succeeds or answers not found, else its error.
C16_GuardDisableBeforeDelete ==
    /\ \A k \in At({"sdk.DeleteLoadBalancer"}) :
          /\ k > 1
          /\ calls[k - 1].op = "sdk.UpdateLoadBalancerProtection"
          /\ calls[k - 1].arg = calls[k].arg
          /\ calls[k - 1].res # "NotFound"
    /\ \A k \in At({"sdk.UpdateLoadBalancerProtection"}) :
          IF calls[k].res = "NotFound"
          THEN /\ k < Len(calls)
               /\ calls[k + 1] = Call("DeleteLoadBalancer", calls[k].arg, "ok")
          ELSE IF k = Len(calls)
          THEN pc = "deleteLoadBalancer"
          ELSE /\ k + 2 <= Len(calls)
               /\ calls[k + 1].op = "sdk.DeleteLoadBalancer"
               /\ calls[k + 1].arg = calls[k].arg
               /\ calls[k + 2] = Call("DeleteLoadBalancer", calls[k].arg,
                                      DeleteDecides(calls[k + 1].res))

\* C16 witness: the protection call failed, the delete call was issued all
\* the same and succeeded, and DeleteLoadBalancer returned nil
C16_Witness ==
    \E k \in At({"sdk.UpdateLoadBalancerProtection"}) :
        /\ calls[k].res = "Err"
        /\ k + 2 <= Len(calls)
        /\ calls[k + 1].res = "Ok"
        /\ calls[k + 2].res = "ok"

(* ---------------------------------------------------------------------- *)
(* The poll loops of waitJobFinish and WaitLoadBalancerActive              *)
(* ---------------------------------------------------------------------- *)

\* the two waits of the provider client
PollFns == {"waitJobFinish", "WaitLoadBalancerActive"}

\* first argument of wait.PollImmediate, in seconds
PollInterval(fn) ==
    IF fn = "waitJobFinish" THEN JobPollInterval ELSE ActivePollInterval

\* the ceilings of the two waits exchanged
PollTimeoutSwapped(fn) ==
    IF fn = "waitJobFinish" THEN ActivePollTimeout ELSE JobPollTimeout

\* second argument of wait.PollImmediate, in seconds
PollTimeout(fn) ==
    IF fn = "waitJobFinish" THEN JobPollTimeout ELSE ActivePollTimeout

\* what a condition function returns: (done, err), err named by its kind
Verdict(done, err) == [done |-> done, err |-> err]

\* c.client.GetJobStatus: the call fails, the body is missing, or the job
\* has a status
GetJobStatusOutcomes == {"Err", "Invalid", "Succeeded", "Failed", "Running"}

\* a condition of waitJobFinish for which a failed job is a job to poll again
JobConditionIgnoreFailed(ans) ==
    CASE ans \in {"Err", "Invalid"} -> Verdict(FALSE, "StatusErr")
      [] ans = "Succeeded" -> Verdict(TRUE, "none")
      [] OTHER -> Verdict(FALSE, "none")

\* the condition function of waitJobFinish
JobCondition(ans) ==
    CASE ans \in {"Err", "Invalid"} -> Verdict(FALSE, "StatusErr")
      [] ans = "Succeeded" -> Verdict(TRUE, "none")
      [] ans = "Failed" -> Verdict(FALSE, "Failed")
      [] OTHER -> Verdict(FALSE, "none")

\* the condition function of WaitLoadBalancerActive, on what GetLoadBalancer
\* returned
ActiveCondition(lb) ==
    IF lb.err THEN Verdict(FALSE, "Err")
    ELSE IF lb.nil THEN Verdict(FALSE, "NotFound")
    ELSE IF lb.LoadBalancerStatus = LoadBalancerStatusActive
    THEN Verdict(TRUE, "none")
    ELSE Verdict(FALSE, "none")

\* what the provider can answer to one poll of the wait
PollAnswers(fn) ==
    IF fn = "waitJobFinish" THEN GetJobStatusOutcomes
    ELSE GetLoadBalancerAttributeOutcomes(lbId)

\* the condition function of the wait on an answer
Condition(fn, ans) ==
    IF fn = "waitJobFinish" THEN JobCondition(ans)
    ELSE ActiveCondition(GetLoadBalancer(ans, lbId))

\* what the wait returns when its condition says done: the job succeeded,
\* the load balancer is active
PollSuccess(fn) == IF fn = "waitJobFinish" THEN "Succeeded" ELSE "Active"

\* a pass is in one of the two waits, for a job or for the load balancer
\* it created; the wait has not polled yet
InitPoll ==
    /\ obj = [exists |-> TRUE, deletionTimestamp |-> FALSE,
              finalizer |-> TRUE, spec |-> NLBSpec(<<>>, <<"sg-1">>, TRUE),
              status |-> [EmptyStatus EXCEPT !.LoadBalancerId = 1,
                             !.LoadBalancerStatus = "Provisioning"]]
    /\ nlb = View(obj)
    /\ \E fn \in PollFns :
          /\ poll = [NoPoll EXCEPT !.fn = fn, !.at = "attempt"]
          /\ pc = IF fn = "waitJobFinish" THEN "securityGroups" ELSE "wait"
    /\ idx = 1
    /\ newListenerStatus = <<>>
    /\ lbId = 1
    /\ result = NoResult
    /\ calls = <<>>
    /\ events = <<>>
    /\ start = [exists |-> TRUE, view |-> View(obj)]
    /\ prev = NoPass
    /\ lbs = <<[state |-> LoadBalancerStatusProvisioning, prot |-> TRUE]>>
    /\ lsns = <<>>
    /\ edits = 0

\* one call of the condition function: an error or done ends the wait;
\* else the loop sleeps, or returns the timeout when the ceiling has passed
PollAttempt ==
    /\ poll.at = "attempt"
    /\ \E ans \in PollAnswers(poll.fn) :
          LET v == Condition(poll.fn, ans)
              p == [poll EXCEPT !.attempts = @ + 1, !.last = ans,
                                !.late = IF poll.canceled THEN @ + 1 ELSE @]
          IN  poll' =
                 IF v.err # "none" THEN [p EXCEPT !.at = "done", !.ret = v.err]
                 ELSE IF v.done
                 THEN [p EXCEPT !.at = "done", !.ret = PollSuccess(poll.fn)]
                 ELSE IF poll.closing
                 THEN [p EXCEPT !.at = "done", !.ret = "Timeout"]
                 ELSE [p EXCEPT !.at = "sleep"]
    /\ UNCHANGED <<obj, passVars, lbs, lsns, edits>>

\* wait.PollImmediate: the ticker fires an interval after the last attempt,
\* no later than the ceiling
PollTick ==
    /\ poll.at = "sleep"
    /\ poll.elapsed + PollInterval(poll.fn) <= PollTimeout(poll.fn)
    /\ poll' = [poll EXCEPT !.elapsed = @ + PollInterval(poll.fn),
                            !.at = "attempt"]
    /\ UNCHANGED <<obj, passVars, lbs, lsns, edits>>

\* wait.PollImmediate: the ceiling passes before the next tick is served;
\* the loop returns the timeout, at once or after one last attempt
PollExpire ==
    /\ poll.at = "sleep"
    /\ poll.elapsed + PollInterval(poll.fn) >= PollTimeout(poll.fn)
    /\ \E last \in BOOLEAN :
          poll' = IF last
                  THEN [poll EXCEPT !.elapsed = PollTimeout(poll.fn),
                                    !.closing = TRUE, !.at = "attempt"]
                  ELSE [poll EXCEPT !.elapsed = PollTimeout(poll.fn),
                                    !.at = "done", !.ret = "Timeout"]
    /\ UNCHANGED <<obj, passVars, lbs, lsns, edits>>

\* the steps of the poll loop
PollStep == PollAttempt \/ PollTick \/ PollExpire

\* the context of the reconciliation request is canceled while the wait is
\* polling; neither wait hands a context to wait.PollImmediate or to the
\* provider call of its condition, so no step of the loop reads it
PollCancel ==
    /\ poll.at \in {"attempt", "sleep"}
    /\ poll.attempts >= 1
    /\ ~poll.canceled
    /\ poll' = [poll EXCEPT !.canceled = TRUE]
    /\ UNCHANGED <<obj, passVars, lbs, lsns, edits>>

NextPoll ==
    \/ PollAttempt
    \/ PollTick
    \/ PollExpire
    \/ PollCancel
    \/ ProviderActivate
    \/ ExternalDelete

\* the thread of the pass keeps running the loop
SpecPoll == InitPoll /\ [][NextPoll]_vars /\ WF_vars(PollStep)

\* C17: in waitJobFinish a poll that reads Succeeded ends the wait with
\* nil; a poll that reads Failed ends it with an error; a wait that has
\* ended takes no further step, so the job is not polled again; a poll that
\* reads any other status with the ceiling still more than an interval away
\* leaves the loop waiting for the tick, which alone can come next, and
\* every attempt but the one at the ceiling starts one interval after the
\* attempt before it.
C17_JobWaiterOutcomes ==
    poll.fn = "waitJobFinish" =>
        /\ poll.last = "Succeeded" =>
              /\ poll.at = "done"
              /\ poll.ret = "Succeeded"
              /\ ~waitJobFinish(poll.ret)
        /\ poll.last = "Failed" =>
              /\ poll.at = "done"
              /\ poll.ret = "Failed"
              /\ waitJobFinish(poll.ret)
        /\ poll.at = "done" => ~ENABLED PollStep
        /\ (poll.last = "Running" /\ poll.at = "sleep"
              /\ poll.elapsed + JobPollInterval < JobPollTimeout) =>
              /\ poll.ret = "none"
              /\ ENABLED PollTick
              /\ ~ENABLED PollExpire
        /\ (poll.at = "attempt" /\ ~poll.closing) =>
              poll.elapsed = poll.attempts * JobPollInterval
        /\ (poll.last = "Running" /\ poll.at = "done") =>
              /\ poll.ret = "Timeout"
              /\ poll.elapsed = JobPollTimeout

\* C17 witness: the job was running at two polls and failed at the third,
\* six seconds into the wait
C17_Witness ==
    /\ poll.fn = "waitJobFinish"
    /\ poll.last = "Failed"
    /\ poll.attempts = 3
    /\ poll.elapsed = 2 * JobPollInterval
    /\ poll.ret = "Failed"

\* the wait is within the ceiling of its poll loop: no more seconds have
\* passed than the ceiling, and no more attempts were made than the one at
\* the start, one per interval and one at the ceiling
WithinCeiling(interval, timeout) ==
    /\ poll.elapsed <= timeout
    /\ poll.attempts <= timeout \div interval + 2
    /\ poll.ret = "Timeout" =>
          /\ poll.elapsed = timeout
          /\ poll.attempts >= timeout \div interval

\* C18: waitJobFinish never polls beyond 3min in 3s steps and
\* WaitLoadBalancerActive never beyond 5min in 10s steps; each of them
\* ends, with the outcome of a poll or, when no poll reached the target
\* state or failed, with the timeout error at the ceiling.
C18_PollLoopsBounded ==
    /\ [](poll.fn = "waitJobFinish" =>
             /\ WithinCeiling(JobPollInterval, JobPollTimeout)
             /\ poll.at = "done" => poll.ret \in JobOutcomes
             /\ poll.ret = "Timeout" <=>
                   (poll.at = "done" /\ poll.last = "Running"))
    /\ [](poll.fn = "WaitLoadBalancerActive" =>
             /\ WithinCeiling(ActivePollInterval, ActivePollTimeout)
             /\ poll.at = "done" =>
                   poll.ret \in {"Active", "NotFound", "Err", "Timeout"}
             /\ poll.ret = "Timeout" => poll.last = "Ok")
    /\ <>(poll.at = "done")

\* C18 witness: the load balancer stayed in Provisioning and
\* WaitLoadBalancerActive returned the timeout after 5min
C18_Witness ==
    /\ poll.fn = "WaitLoadBalancerActive"
    /\ poll.at = "done"
    /\ poll.ret = "Timeout"
    /\ poll.elapsed = ActivePollTimeout
    /\ LbPresent(lbId)
    /\ lbs[lbId].state = LoadBalancerStatusProvisioning

\* C19: once the request is canceled while a wait is polling, the wait
\* makes at most one more attempt instead of polling on to its ceiling, and
\* a wait that was canceled does not return the timeout error.
C19_CancellationStopsPolling ==
    poll.canceled =>
        /\ poll.late <= 1
        /\ poll.at = "done" => poll.ret # "Timeout"

\* C20: a step that changes a non-empty persisted status.loadBalancerId
\* empties it, and is the status write of the drift branch: the write of an
\* Active pass right after GetLoadBalancer answered nil, nil for the
\* recorded id. No other step of any pass, no user action and no provider
\* event changes a non-empty persisted id, and none replaces it by another
\* id.
C20_IdResetOnlyOnDrift ==
    [][(/\ obj.status.LoadBalancerId # NoId
        /\ obj'.status.LoadBalancerId # obj.status.LoadBalancerId) =>
          /\ obj'.status.LoadBalancerId = NoId
          /\ pc = "persistDrift"
          /\ PassKind = "Active"
          /\ calls[Len(calls)] =
                Call("GetLoadBalancer", obj.status.LoadBalancerId, "nil")
          /\ start.view.status.LoadBalancerId = obj.status.LoadBalancerId]_vars

\* C20 witness: the status write of the drift branch has just emptied the
\* persisted id the pass had read
C20_Witness ==
    /\ pc = "done"
    /\ InDriftBranch
    /\ calls[Len(calls)] = Call("StatusUpdate", NoId, "ok")
    /\ obj.status.LoadBalancerId = NoId
    /\ obj.exists

\* C21: no step of a reconciliation pass, from Reconcile to the return of
\* its result, changes the spec of the stored object, and the copy the
\* pass works on keeps the spec it read.
C21_SpecNeverWritten ==
    [][/\ pc # "idle" => obj'.spec = obj.spec
       /\ pc = "idle" /\ pc' # "idle" => obj'.spec = obj.spec
       /\ (pc' \notin {"idle"} /\ start'.exists) =>
             /\ nlb'.spec = start'.view.spec
             /\ obj'.spec = start'.view.spec]_vars

\* C21 witness: a pass has written the guard and the status of an object
\* whose spec the user had edited, and the spec is as the pass read it
C21_Witness ==
    /\ pc = "done"
    /\ edits > 0
    /\ At({"Update"}) # {}
    /\ calls[Len(calls)] = Call("StatusUpdate", NoId, "ok")
    /\ obj.finalizer
    /\ obj.status.LoadBalancerId # NoId
    /\ obj.spec = start.view.spec

\* a Terminating pass that read a lifecycle status other than "Deleting"
\* and has come past the first step of handleDeletion
MarkedDeleting ==
    /\ PassKind = "Terminating"
    /\ start.view.finalizer
    /\ start.view.status.LoadBalancerStatus # "Deleting"
    /\ pc # "deletion"

\* C22: such a pass has set the lifecycle status "Deleting" and one
\* Ready=False condition with reason Deleting in its copy of the status and
\* has issued the status write as its first call after the read; when the
\* write succeeded the persisted status holds both, when it failed the
\* persisted status is as the pass read it, and in either case the pass is
\* in the listener loop or beyond: the failed write is not what the pass
\* returns, the delete calls the pass goes on to issue are those for the
\* recorded listeners and load balancer, and a pass that ended in a
\* successful finalizer write has cleared the guard.
C22_DeletingBestEffort ==
    MarkedDeleting =>
        /\ nlb.status.LoadBalancerStatus = "Deleting"
        /\ \E i \in ConditionsOf(nlb.status, ConditionTypeReady) :
              /\ ConditionsOf(nlb.status, ConditionTypeReady) = {i}
              /\ nlb.status.Conditions[i].Status = "False"
              /\ nlb.status.Conditions[i].Reason = "Deleting"
        /\ Len(calls) >= 2
        /\ calls[2].op = "StatusUpdate"
        /\ IF calls[2].res = "ok"
           THEN /\ obj.status.LoadBalancerStatus = "Deleting"
                /\ obj.status.Conditions = nlb.status.Conditions
           ELSE obj.status = start.view.status
        /\ pc \in {"deleteListeners", "disableProtection",
                   "deleteLoadBalancer", "removeFinalizer", "done"}
        /\ pc = "done" =>
              /\ Len(calls) >= 3
              /\ calls[Len(calls)] = Call("Update", NoId, "ok") =>
                    ~obj.finalizer /\ result = NoResult
        /\ pc \in {"removeFinalizer", "done"} /\ FailedCall \notin {"DeleteListener", "DeleteLoadBalancer"} =>
              /\ Args(Entries("DeleteListener")) = RecordedIds(start.view.status)
              /\ start.view.status.LoadBalancerId # NoId =>
                    At({"DeleteLoadBalancer"}) # {}

\* C22 witness: the Deleting write failed, and the pass has deleted a
\* listener and the load balancer and has cleared the guard
C22_Witness ==
    /\ MarkedDeleting
    /\ calls[2] = Call("StatusUpdate", NoId, "err")
    /\ pc = "done"
    /\ \E k \in At({"sdk.DeleteListener"}) : calls[k].res = "Ok"
    /\ \E k \in At({"sdk.DeleteLoadBalancer"}) : calls[k].res = "Ok"
    /\ ~obj.finalizer
    /\ obj.status.LoadBalancerStatus # "Deleting"

\* the pass found nothing it has to release: the object is under deletion
\* without the finalizer, or r.Get reported it not found
NothingToRelease ==
    /\ pc # "idle"
    /\ \/ PassKind = "Released"
       \/ ~start.exists /\ calls[1] = Call("Get", NoId, "nil")

\* C23: a pass that found the object under deletion without the finalizer,
\* or did not find the object, has ended at once: the read is its only
\* call, so it called neither the provider nor a write of the API server,
\* it recorded no event, the stored object is as the pass read it, and the
\* result is the empty one (no error, no requeue).
C23_NothingToReleaseIsNoOp ==
    NothingToRelease =>
        /\ pc = "done"
        /\ Len(calls) = 1
        /\ calls[1].op = "Get"
        /\ events = <<>>
        /\ result = NoResult
        /\ ~result.err /\ ~result.Requeue /\ result.RequeueAfter = 0
        /\ start.exists => View(obj) = start.view
        /\ ~start.exists => ~obj.exists

\* C23 witness: a pass over an object under deletion that does not carry
\* the finalizer has returned
C23_Witness ==
    /\ pc = "done"
    /\ PassKind = "Released"
    /\ obj.exists /\ obj.deletionTimestamp /\ ~obj.finalizer
    /\ calls = <<Call("Get", NoId, "ok")>>
    /\ result = NoResult

\* before call k the pass has confirmed load balancer id present: a
\* GetLoadBalancer for it returned the load balancer, and when the pass
\* created it, the create and a successful wait came before that get
ConfirmedPresent(id, k) ==
    \E g \in At({"GetLoadBalancer"}) :
        /\ g < k
        /\ calls[g] = Call("GetLoadBalancer", id, "ok")
        /\ \A c \in At({"CreateLoadBalancer"}) :
              /\ calls[c] = Call("CreateLoadBalancer", id, "ok")
              /\ \E w \in At({"WaitLoadBalancerActive"}) :
                    c < w /\ w < g /\ calls[w].res = "ok"

\* C24: in a pass, every JoinSecurityGroup and every CreateListener comes
\* after the load balancer of the status was confirmed present, and is
\* issued for that load balancer; the pass joins at most once, before its
\* first CreateListener; with security groups in the spec a CreateListener
\* follows a successful join, and with an empty list there is no join call.
C24_AttachAfterConfirmed ==
    LET joins   == At({"JoinSecurityGroup"})
        creates == At({"CreateListener"})
        id      == nlb.status.LoadBalancerId
    IN  /\ \A k \in joins \cup creates : id # NoId /\ ConfirmedPresent(id, k)
        /\ \A k \in joins : calls[k].arg = id
        /\ \A k \in creates :
              calls[k].res = "ok" => lsns[calls[k].arg].lb = id
        /\ Cardinality(joins) <= 1
        /\ \A j \in joins : \A k \in creates : j < k
        /\ creates # {} /\ Len(nlb.spec.SecurityGroupIds) > 0 =>
              \E j \in joins : calls[j].res = "ok"
        /\ Len(nlb.spec.SecurityGroupIds) = 0 => joins = {}
        /\ pc \in {"securityGroups", "listeners", "persistFinal"} =>
              id # NoId /\ ConfirmedPresent(id, Len(calls) + 1)

\* C24 witness: a pass created the load balancer, waited for it, fetched
\* it, joined the security group and then created a listener
C24_Witness ==
    /\ At({"CreateLoadBalancer"}) # {}
    /\ \E j \in At({"JoinSecurityGroup"}) : \E k \in At({"CreateListener"}) :
          /\ j < k
          /\ calls[j].res = "ok"
          /\ calls[k].res = "ok"
    /\ Len(nlb.spec.SecurityGroupIds) > 0

\* C25: every CreateLoadBalancer call of a pass is issued with the
\* finalizer stored on the object, read with it or written by the pass
\* before the call; a pass whose finalizer write failed has ended there
\* with the error and without a provider call; a stored object without the
\* finalizer has no load balancer and no listener at the provider; and an
\* Active pass that ended without error leaves the finalizer stored.
C25_GuardBeforeCreate ==
    /\ \A k \in At({"CreateLoadBalancer"}) :
          /\ obj.finalizer
          /\ \/ start.view.finalizer
             \/ \E j \in At({"Update"}) : j < k /\ calls[j].res = "ok"
    /\ (PassKind = "Active" /\ ~start.view.finalizer
           /\ Len(calls) >= 2 /\ calls[2].res = "err") =>
          /\ calls = <<Call("Get", NoId, "ok"), Call("Update", NoId, "err")>>
          /\ pc = "done"
          /\ result = Result(FALSE, 0, TRUE)
          /\ ~obj.finalizer
    /\ (obj.exists /\ ~obj.finalizer) => lbs = <<>> /\ lsns = <<>>
    /\ (PassKind = "Active" /\ pc = "done" /\ ~result.err) => obj.finalizer

\* C25 witness: a pass read the object without the finalizer, stored the
\* finalizer and then created the load balancer
C25_Witness ==
    /\ PassKind = "Active"
    /\ ~start.view.finalizer
    /\ Len(calls) >= 3
    /\ calls[2] = Call("Update", NoId, "ok")
    /\ calls[3].op = "CreateLoadBalancer" /\ calls[3].res = "ok"
    /\ obj.finalizer
    /\ LbPresent(calls[3].arg)

\* an Active pass that read the status the drift branch leaves behind (no
\* load-balancer id, listener records of the vanished load balancer), has
\* created a new load balancer and has come through handleListeners
RecreatedAfterDrift ==
    /\ PassKind = "Active"
    /\ start.view.status.LoadBalancerId = NoId
    /\ RecordedIds(start.view.status) # <<>>
    /\ \E k \in At({"CreateLoadBalancer"}) : calls[k].res = "ok"
    /\ \/ pc = "persistFinal"
       \/ pc = "done" /\ ~result.err

\* C26: once the load balancer was re-created after a drift reset and the
\* listeners were handled, every listener id of the listener status is a
\* listener of the new load balancer, none is an id the pass read from the
\* status of the vanished one, and the pass has issued a CreateListener for
\* every desired port.
C26_ListenersRecreatedAfterDrift ==
    RecreatedAfterDrift =>
        /\ \A r \in 1..Len(nlb.status.ListenerStatus) :
              LET id == nlb.status.ListenerStatus[r].ListenerId IN
              /\ id \in 1..Len(lsns)
              /\ lsns[id].lb = nlb.status.LoadBalancerId
              /\ \A s \in 1..Len(start.view.status.ListenerStatus) :
                    start.view.status.ListenerStatus[s].ListenerId # id
        /\ \A p \in 1..Len(nlb.spec.Listeners) :
              CreatesOf(nlb.spec.Listeners[p]) # {}

\* C27: when a pass has created a load balancer, no load balancer of an
\* earlier successful create is still at the provider. Such a one would be
\* untracked: a pass creates only when the persisted status holds no id,
\* and the drift branch empties a persisted id only for a load balancer the
\* provider no longer has, so a load balancer that is still there when the
\* next one is created was never recorded.
C27_NoUntrackedLoadBalancer ==
    \A k \in At({"CreateLoadBalancer"}) :
        calls[k].res = "ok" =>
            \A j \in 1..Len(lbs) :
                j # calls[k].arg => ~LbPresent(j)

\* C28: when a pass has ended, every listener id that a successful
\* CreateListener of the pass returned is in the persisted listener status,
\* whatever the pass failed in afterwards.
C28_NoUntrackedListener ==
    pc = "done" =>
        \A k \in At({"CreateListener"}) :
            calls[k].res = "ok" =>
                \E r \in 1..Len(obj.status.ListenerStatus) :
                    /\ obj.status.ListenerStatus[r].ListenerId = calls[k].arg
                    /\ obj.status.ListenerStatus[r].ListenerPort = calls[k].port

\* the pass created a load balancer, the wait for it succeeded, and the
\* GetLoadBalancer that followed answered nil, nil
NotFoundAfterWait ==
    /\ At({"CreateLoadBalancer"}) # {}
    /\ \E w \in At({"WaitLoadBalancerActive"}) :
          /\ calls[w].res = "ok"
          /\ w < Len(calls)
          /\ calls[w + 1] = Call("GetLoadBalancer", calls[w].arg, "nil")

\* C29: such a pass ends by returning an error or a retry directive, and
\* does not dereference the absent result.
C29_NotFoundAfterWaitHandled ==
    NotFoundAfterWait =>
        /\ pc = "done"
        /\ ~result.panic
        /\ result.err \/ result.Requeue \/ result.RequeueAfter > 0

\* C30: when an Active pass has ended with its final status write, which
\* stores the condition Ready=True, the lifecycle status it stored is
\* "Active"; and a pass that has issued a CreateListener holds the
\* lifecycle status "Active" for its load balancer.
C30_ReadyOnlyWhenActive ==
    /\ (/\ pc = "done"
        /\ PassKind = "Active"
        /\ calls[Len(calls)] = Call("StatusUpdate", NoId, "ok")
        /\ \E i \in ConditionsOf(obj.status, ConditionTypeReady) :
              obj.status.Conditions[i].Status = "True") =>
          obj.status.LoadBalancerStatus = LoadBalancerStatusActive
    /\ At({"CreateListener"}) # {} =>
          nlb.status.LoadBalancerStatus = LoadBalancerStatusActive

(* ---------------------------------------------------------------------- *)
(* The controller under its dispatcher                                     *)
(* ---------------------------------------------------------------------- *)

\* a step of the controller: the dispatcher calls Reconcile for an object
\* it was told of or has to retry, and a pass that has started runs on to
\* its return
PassStep ==
    \/ Reconcile
    \/ Return
    \/ AddFinalizer
    \/ CreateLoadBalancer
    \/ PersistCreated
    \/ WaitActive
    \/ GetCreated
    \/ VerifyLoadBalancer
    \/ PersistDrift
    \/ HandleSecurityGroups
    \/ HandleListener
    \/ CompleteListeners
    \/ PersistFinal
    \/ MarkDeleting
    \/ DeleteListenerStep
    \/ DeleteLoadBalancerCheck
    \/ DisableProtection
    \/ DeleteLoadBalancer
    \/ RemoveFinalizer

\* the program with a dispatcher that keeps calling Reconcile and a pass
\* that is never left hanging
SpecFair == Init /\ [][Next]_vars /\ WF_vars(PassStep)

\* the step ends in a call of one of ops that returned an error
CallFails(ops) ==
    /\ Len(calls') > Len(calls)
    /\ calls'[Len(calls')].op \in ops
    /\ calls'[Len(calls')].res = "err"

\* from some point on no DeleteListener and no DeleteLoadBalancer of the
\* provider client returns an error
ProviderDeletesSucceed ==
    <>[][~CallFails({"DeleteListener", "DeleteLoadBalancer"})]_vars

\* from some point on the read of the object and the finalizer write succeed
ApiServerAnswers == <>[][~CallFails({"Get", "Update"})]_vars

DeletionRequested == obj.exists /\ obj.deletionTimestamp /\ obj.finalizer

\* C31 as claimed: when the provider's delete calls fail only finitely
\* often, a deletion requested with the finalizer set leads to the
\* finalizer being cleared.
C31_DeletionCompletes ==
    ProviderDeletesSucceed => (DeletionRequested ~> ~obj.finalizer)

\* C31 as amended: when the provider's delete calls, the read of the object
\* and the finalizer write fail only finitely often, a deletion requested
\* with the finalizer set leads to the finalizer being cleared.
C31_DeletionCompletesWhenWritable ==
    (ProviderDeletesSucceed /\ ApiServerAnswers) =>
        (DeletionRequested ~> ~obj.finalizer)

\* C31 witness: a Terminating pass that follows one which failed in the
\* delete of the load balancer has cleared the finalizer
C31_Witness ==
    /\ PassKind = "Terminating"
    /\ prev = "DeleteLoadBalancer"
    /\ pc = "done"
    /\ calls[Len(calls)] = Call("Update", NoId, "ok")
    /\ ~obj.finalizer
    /\ ~obj.exists

\* the calls of a pass that can return an error
FallibleOps ==
    {"Get", "Update", "StatusUpdate", "CreateLoadBalancer",
     "WaitLoadBalancerActive", "GetLoadBalancer", "JoinSecurityGroup",
     "CreateListener", "DeleteListener", "DeleteLoadBalancer"}

\* the persisted status names a load balancer, carries Ready=True and has a
\* listener record for every desired port, and the pass under way, if any,
\* has issued no create call
Converged ==
    /\ obj.status.LoadBalancerId # NoId
    /\ \E i \in ConditionsOf(obj.status, ConditionTypeReady) :
          obj.status.Conditions[i].Status = "True"
    /\ \A p \in 1..Len(obj.spec.Listeners) :
          \E r \in 1..Len(obj.status.ListenerStatus) :
              obj.status.ListenerStatus[r].ListenerPort = obj.spec.Listeners[p]
    /\ At({"CreateLoadBalancer", "CreateListener"}) = {}

====
